---- MODULE Spec2Model ----
(***************************************************************************)
(* A model of the pointer-annotated binary archive of thane98/mila         *)
(* (src/src/bin_archive.rs, src/src/bin_streams.rs): the store's data      *)
(* buffer and side tables, its structural mutations, and its on-disk       *)
(* form.                                                                   *)
(*                                                                         *)
(* A HashMap<K, V> is a function whose DOMAIN is the key set; a String is  *)
(* the sequence of its code points; a Vec<u8> is a sequence of 0..255.     *)
(***************************************************************************)
EXTENDS Integers, Sequences, FiniteSets, TLC

VARIABLES data, text, pointers, labels, cstrings, endian, hist, last, phase,
          file, out, other, textArchive, inserted, aset, assets, reader, arc

\* The objects of the formats built on the store.
formats == <<textArchive, inserted, aset, assets, reader, arc>>

vars == <<data, text, pointers, labels, cstrings, endian, hist, last, phase,
         file, out, other, formats>>

\* No object of a higher-level format has been built.
NoFormats ==
    /\ textArchive = <<>>
    /\ inserted = <<>>
    /\ aset = <<>>
    /\ assets = <<>>
    /\ reader = <<>>
    /\ arc = <<>>

(***************************************************************************)
(* Bounds of the model.                                                    *)
(***************************************************************************)
\* The largest data buffer of an initial store, in 4-byte cells.
MaxCells == 2
\* The most side-table entries (pointers + text + label buckets) of an
\* initial store.
MaxAnn == 2
\* The largest data section of a parsed file, in 4-byte cells.
MaxFileCells == 2

MaxSize == 4 * MaxCells

Endians == {"Little", "Big"}

\* Two names / string values: "A" and "B".
StrA == <<65>>
StrB == <<66>>
Strings == {StrA, StrB}

(***************************************************************************)
(* Maps.                                                                   *)
(***************************************************************************)
EmptyMap == <<>>

MapPut(m, k, v) == [x \in DOMAIN m \cup {k} |-> IF x = k THEN v ELSE m[x]]

MapRemove(m, k) == [x \in DOMAIN m \ {k} |-> m[x]]

\* HashMap::len.
Entries(m) == Cardinality(DOMAIN m)

\* map.iter().map(|(k, v)| (f(k), g(k, v))).collect(), for the key
\* rewritings of this file, which never send two keys they meet to one
\* (C3_AllocationNeutralityAmended counts the entries).
\* key and val are functions on DOMAIN m: the pair each entry is mapped to.
Collect(m, key, val) ==
    [k2 \in {key[k] : k \in DOMAIN m} |->
       val[CHOOSE k \in DOMAIN m : key[k] = k2]]

(***************************************************************************)
(* The store: BinArchive.                                                  *)
(***************************************************************************)
Store(d, t, p, l, c, e) ==
    [data |-> d, text |-> t, pointers |-> p, labels |-> l, cstrings |-> c,
     endian |-> e]

Cur == Store(data, text, pointers, labels, cstrings, endian)

new(e) == Store(<<>>, EmptyMap, EmptyMap, EmptyMap, EmptyMap, e)

size(s) == Len(s.data)

Ok(s) == [err |-> "Ok", store |-> s]

Err(e, s) == [err |-> e, store |-> s]

validate_address(address, sz, end_is_valid) ==
    ~ ((end_is_valid /\ address > sz) \/ (~end_is_valid /\ address >= sz))

validate_alignment(value, bytes) == value % bytes = 0

\* adjust_pointer leaving a value equal to the boundary where it is.
adjust_pointer_strict(pointer, address, count, subtract) ==
    IF pointer > address
    THEN IF subtract THEN pointer - count ELSE pointer + count
    ELSE pointer

adjust_pointer(pointer, address, count, subtract) ==
    IF pointer >= address
    THEN IF subtract THEN pointer - count ELSE pointer + count
    ELSE pointer

InRange(x, address, count) == address <= x /\ x < address + count

\* filter_text_or_labels with the range address..=address + count.
filter_text_or_labels_inclusive(map, address, count) ==
    [k \in {x \in DOMAIN map : ~(address <= x /\ x <= address + count)} |-> map[k]]

filter_text_or_labels(map, address, count) ==
    [k \in {x \in DOMAIN map : ~InRange(x, address, count)} |-> map[k]]

\* filter_pointers looking at the sources only.
filter_pointers_by_source(map, address, count) ==
    [k \in {x \in DOMAIN map : ~InRange(x, address, count)} |-> map[k]]

filter_pointers(map, address, count) ==
    [k \in {x \in DOMAIN map :
              ~(InRange(x, address, count) \/ InRange(map[x], address, count))}
       |-> map[k]]

\* adjust_text that forgets to rewrite the keys.
adjust_text_unshifted(map, address, count, subtract) == map

adjust_text(map, address, count, subtract) ==
    Collect(map,
            [k \in DOMAIN map |-> adjust_pointer(k, address, count, subtract)],
            map)

\* adjust_labels with the boundary test of adjust_pointer (>= whatever ge).
adjust_labels_ignoring_ge(map, address, count, subtract, ge) ==
    Collect(map,
            [k \in DOMAIN map |-> adjust_pointer(k, address, count, subtract)],
            map)

adjust_labels(map, address, count, subtract, ge) ==
    Collect(map,
            [k \in DOMAIN map |->
               IF k > address \/ (k >= address /\ ge)
               THEN IF subtract THEN k - count ELSE k + count
               ELSE k],
            map)

\* adjust_pointers moving a destination equal to the boundary whatever ge.
adjust_pointers_ignoring_ge(map, address, count, subtract, ge) ==
    Collect(map,
            [k \in DOMAIN map |-> adjust_pointer(k, address, count, subtract)],
            [k \in DOMAIN map |-> adjust_pointer(map[k], address, count, subtract)])

adjust_pointers(map, address, count, subtract, ge) ==
    Collect(map,
            [k \in DOMAIN map |-> adjust_pointer(k, address, count, subtract)],
            [k \in DOMAIN map |->
               IF map[k] > address \/ (map[k] >= address /\ ge)
               THEN IF subtract THEN map[k] - count ELSE map[k] + count
               ELSE map[k]])

Zeros(n) == [i \in 1..n |-> 0]

\* Vec::splice(address..address, zeros)
Splice(d, address, n) ==
    SubSeq(d, 1, address) \o Zeros(n) \o SubSeq(d, address + 1, Len(d))

\* Vec::drain(from..to)
Drain(d, from, to) == SubSeq(d, 1, from) \o SubSeq(d, to + 1, Len(d))

allocate_at_end(s, amount_in_bytes) ==
    Ok([s EXCEPT !.data = s.data \o Zeros(amount_in_bytes)])

\* allocate that inserts the zero bytes before validating its arguments.
allocate_mutating_first(s, address, amount_in_bytes, ge) ==
    LET grown == [s EXCEPT !.data = s.data \o Zeros(amount_in_bytes)]
    IN  IF ~validate_address(address, size(s), TRUE)
        THEN Err("OutOfBoundsAddress", grown)
        ELSE IF ~validate_alignment(address, 4)
        THEN Err("UnalignedValue", grown)
        ELSE IF ~validate_alignment(amount_in_bytes, 4)
        THEN Err("UnalignedValue", grown)
        ELSE Ok([s EXCEPT
                 !.data = Splice(s.data, address, amount_in_bytes),
                 !.text = adjust_text(s.text, address, amount_in_bytes, FALSE),
                 !.labels = adjust_labels(s.labels, address, amount_in_bytes, FALSE, ge),
                 !.pointers = adjust_pointers(s.pointers, address, amount_in_bytes, FALSE, ge)])

allocate(s, address, amount_in_bytes, ge) ==
    IF ~validate_address(address, size(s), TRUE)
    THEN Err("OutOfBoundsAddress", s)
    ELSE IF ~validate_alignment(address, 4)
    THEN Err("UnalignedValue", s)
    ELSE IF ~validate_alignment(amount_in_bytes, 4)
    THEN Err("UnalignedValue", s)
    ELSE Ok([s EXCEPT
             !.data = Splice(s.data, address, amount_in_bytes),
             !.text = adjust_text(s.text, address, amount_in_bytes, FALSE),
             !.labels = adjust_labels(s.labels, address, amount_in_bytes, FALSE, ge),
             !.pointers = adjust_pointers(s.pointers, address, amount_in_bytes, FALSE, ge)])

deallocate(s, address, amount_in_bytes, ge) ==
    IF ~validate_address(address, size(s), FALSE)
    THEN Err("OutOfBoundsAddress", s)
    ELSE IF ~validate_address(address + amount_in_bytes, size(s), TRUE)
    THEN Err("OutOfBoundsAddress", s)
    ELSE IF ~validate_alignment(address, 4)
    THEN Err("UnalignedValue", s)
    ELSE IF ~validate_alignment(amount_in_bytes, 4)
    THEN Err("UnalignedValue", s)
    ELSE Ok([s EXCEPT
             !.data = Drain(s.data, address, address + amount_in_bytes),
             !.text = adjust_text(
                 filter_text_or_labels(s.text, address, amount_in_bytes),
                 address, amount_in_bytes, TRUE),
             !.labels = adjust_labels(
                 filter_text_or_labels(s.labels, address, amount_in_bytes),
                 address, amount_in_bytes, TRUE, ge),
             !.pointers = adjust_pointers(
                 filter_pointers(s.pointers, address, amount_in_bytes),
                 address, amount_in_bytes, TRUE, ge)])

\* The addresses the loop of truncate visits: address, address + 4, ...
\* below the old length.
TruncateSteps(address, len) ==
    {i \in address..(len - 1) : (i - address) % 4 = 0}

truncate(s, address) ==
    IF address >= size(s)
    THEN Ok(s)
    ELSE LET gone == TruncateSteps(address, size(s))
             Keep(m) == [k \in DOMAIN m \ gone |-> m[k]]
         IN  Ok([s EXCEPT
                 !.data = Drain(s.data, address, size(s)),
                 !.text = Keep(s.text),
                 !.labels = Keep(s.labels),
                 !.pointers = Keep(s.pointers)])

\* BinArchiveWriter::allocate at cursor position `position`. The call it
\* makes, archive.allocate(position, amount), names no ge: either value.
writer_allocate(s, position, amount, ge) ==
    IF position = size(s)
    THEN allocate_at_end(s, amount)
    ELSE allocate(s, position, amount, ge)

(***************************************************************************)
(* Typed writes of the side tables (the Some(value) forms).                *)
(***************************************************************************)
CellFits(s, address) ==
    /\ validate_address(address, size(s), FALSE)
    /\ validate_address(address + 4, size(s), TRUE)

write_string(s, address, value) ==
    IF ~CellFits(s, address)
    THEN Err("OutOfBoundsAddress", s)
    ELSE Ok([s EXCEPT !.text = MapPut(s.text, address, value)])

write_pointer(s, address, value) ==
    IF ~CellFits(s, address)
    THEN Err("OutOfBoundsAddress", s)
    ELSE Ok([s EXCEPT !.pointers = MapPut(s.pointers, address, value)])

write_label(s, address, label) ==
    IF ~validate_address(address, size(s), TRUE)
    THEN Err("OutOfBoundsAddress", s)
    ELSE Ok([s EXCEPT !.labels =
               MapPut(s.labels, address,
                      IF address \in DOMAIN s.labels
                      THEN Append(s.labels[address], label)
                      ELSE <<label>>)])

(***************************************************************************)
(* The codecs.  Scalars of the model stay below 2^31.                      *)
(***************************************************************************)
encode_u32(value, e) ==
    LET le == <<value % 256, (value \div 256) % 256,
                (value \div 65536) % 256, (value \div 16777216) % 256>>
    IN  IF e = "Little" THEN le ELSE <<le[4], le[3], le[2], le[1]>>

decode_u32(b, e) ==
    IF e = "Little"
    THEN b[1] + 256 * b[2] + 65536 * b[3] + 16777216 * b[4]
    ELSE b[4] + 256 * b[3] + 65536 * b[2] + 16777216 * b[1]

\* SHIFT_JIS.encode of one code point, -1 when it has no encoding.  ASCII
\* and U+0080 are their own byte, U+00A5 and U+203E are 0x5C and 0x7E, the
\* half-width katakana U+FF61..U+FF9F are 0xA1..0xDF; the two-byte part of
\* the code is outside the alphabet of the model.
EncodeChar(c) ==
    IF c <= 128 THEN c
    ELSE IF c = 165 THEN 92
    ELSE IF c = 8254 THEN 126
    ELSE IF c >= 65377 /\ c <= 65439 THEN c - 65377 + 161
    ELSE -1

\* SHIFT_JIS.decode of one byte, -1 for an error.
DecodeByte(b) ==
    IF b <= 128 THEN b
    ELSE IF b >= 161 /\ b <= 223 THEN 65377 + b - 161
    ELSE -1

to_shift_jis(string) ==
    LET bytes == [i \in 1..Len(string) |-> EncodeChar(string[i])]
    IN  [ok |-> \A i \in 1..Len(string) : bytes[i] >= 0, bytes |-> bytes]

\* Cursor::read_shift_jis_string with the cursor at pos.
read_shift_jis_string(bytes, pos) ==
    LET zs == {i \in (pos + 1)..Len(bytes) : bytes[i] = 0}
    IN  IF zs = {}
        THEN [err |-> "UnterminatedString", string |-> <<>>]
        ELSE LET z == CHOOSE i \in zs : \A j \in zs : i <= j
                 chars == [i \in 1..(z - pos - 1) |-> DecodeByte(bytes[pos + i])]
             IN  IF \E i \in 1..Len(chars) : chars[i] < 0
                 THEN [err |-> "DecodingFailed", string |-> <<>>]
                 ELSE [err |-> "Ok", string |-> chars]

\* String::cmp and Vec<String>::cmp: lexicographic.
StrLess(a, b) ==
    \E i \in 1..Len(b) :
        /\ i <= Len(a) + 1
        /\ \A j \in 1..(i - 1) : a[j] = b[j]
        /\ i <= Len(a) => a[i] < b[i]

BucketLess(x, y) ==
    \E i \in 1..Len(y) :
        /\ i <= Len(x) + 1
        /\ \A j \in 1..(i - 1) : x[j] = y[j]
        /\ i <= Len(x) => StrLess(x[i], y[i])

RECURSIVE Ascending(_)
Ascending(S) ==
    IF S = {} THEN <<>>
    ELSE LET m == CHOOSE x \in S : \A y \in S : x <= y
         IN  <<m>> \o Ascending(S \ {m})

RECURSIVE AscendingStr(_)
AscendingStr(S) ==
    IF S = {} THEN <<>>
    ELSE LET m == CHOOSE x \in S : \A y \in S : ~StrLess(y, x)
         IN  <<m>> \o AscendingStr(S \ {m})

\* 2-byte scalars: u16 is 0..65535, i16 is -32768..32767.
encode_u16(value, e) ==
    LET le == <<value % 256, (value \div 256) % 256>>
    IN  IF e = "Little" THEN le ELSE <<le[2], le[1]>>

decode_u16(b, e) ==
    IF e = "Little" THEN b[1] + 256 * b[2] ELSE b[2] + 256 * b[1]

Signed(b) == IF b >= 128 THEN b - 256 ELSE b

encode_i16(value, e) == encode_u16(value, e)

decode_i16(b, e) ==
    IF e = "Little" THEN b[1] + 256 * Signed(b[2]) ELSE b[2] + 256 * Signed(b[1])

\* i32 is two's complement: the floor division and the non-negative
\* remainder give its bytes.
encode_i32(value, e) == encode_u32(value, e)

decode_i32(b, e) ==
    IF e = "Little"
    THEN b[1] + 256 * b[2] + 65536 * b[3] + 16777216 * Signed(b[4])
    ELSE b[4] + 256 * b[3] + 65536 * b[2] + 16777216 * Signed(b[1])

\* An f32 is held as the four bytes of its bit pattern, the lowest first.
encode_f32(value, e) ==
    IF e = "Little" THEN value ELSE <<value[4], value[3], value[2], value[1]>>

decode_f32(b, e) ==
    IF e = "Little" THEN b ELSE <<b[4], b[3], b[2], b[1]>>

(***************************************************************************)
(* Typed reads, writes and deletes.  Some(x) is <<x>>, None is <<>>.       *)
(***************************************************************************)
Got(s, v) == [err |-> "Ok", store |-> s, value |-> v]

\* validate_address(address, size, false)?; validate_address(address +
\* width, size, true)?
Fits(s, address, width) ==
    /\ validate_address(address, size(s), FALSE)
    /\ validate_address(address + width, size(s), TRUE)

Bytes(s, address, width) == SubSeq(s.data, address + 1, address + width)

\* self.data[address..address + len].copy_from_slice(bytes)
Poke(s, address, b) ==
    [s EXCEPT !.data = [i \in 1..Len(s.data) |->
        IF address < i /\ i <= address + Len(b) THEN b[i - address] ELSE s.data[i]]]

Lookup(m, k) == IF k \in DOMAIN m THEN <<m[k]>> ELSE <<>>

read_f32(s, address) ==
    IF ~Fits(s, address, 4) THEN Err("OutOfBoundsAddress", s)
    ELSE Got(s, decode_f32(Bytes(s, address, 4), s.endian))

read_u8(s, address) ==
    IF ~validate_address(address, size(s), FALSE) THEN Err("OutOfBoundsAddress", s)
    ELSE Got(s, s.data[address + 1])

read_u16(s, address) ==
    IF ~Fits(s, address, 2) THEN Err("OutOfBoundsAddress", s)
    ELSE Got(s, decode_u16(Bytes(s, address, 2), s.endian))

read_u32(s, address) ==
    IF ~Fits(s, address, 4) THEN Err("OutOfBoundsAddress", s)
    ELSE Got(s, decode_u32(Bytes(s, address, 4), s.endian))

read_i8(s, address) ==
    IF ~validate_address(address, size(s), FALSE) THEN Err("OutOfBoundsAddress", s)
    ELSE Got(s, Signed(s.data[address + 1]))

read_i16(s, address) ==
    IF ~Fits(s, address, 2) THEN Err("OutOfBoundsAddress", s)
    ELSE Got(s, decode_i16(Bytes(s, address, 2), s.endian))

read_i32(s, address) ==
    IF ~Fits(s, address, 4) THEN Err("OutOfBoundsAddress", s)
    ELSE Got(s, decode_i32(Bytes(s, address, 4), s.endian))

read_bytes(s, address, amount) ==
    IF ~Fits(s, address, amount) THEN Err("OutOfBoundsAddress", s)
    ELSE Got(s, Bytes(s, address, amount))

read_string(s, address) ==
    IF ~Fits(s, address, 4) THEN Err("OutOfBoundsAddress", s)
    ELSE Got(s, Lookup(s.text, address))

read_pointer(s, address) ==
    IF ~Fits(s, address, 4) THEN Err("OutOfBoundsAddress", s)
    ELSE Got(s, Lookup(s.pointers, address))

read_labels(s, address) ==
    IF ~Fits(s, address, 4) THEN Err("OutOfBoundsAddress", s)
    ELSE Got(s, Lookup(s.labels, address))

delete_string(s, address) ==
    IF ~Fits(s, address, 4) THEN Err("OutOfBoundsAddress", s)
    ELSE Ok([s EXCEPT !.text = MapRemove(s.text, address)])

delete_pointer(s, address) ==
    IF ~Fits(s, address, 4) THEN Err("OutOfBoundsAddress", s)
    ELSE Ok([s EXCEPT !.pointers = MapRemove(s.pointers, address)])

delete_labels(s, address) ==
    IF ~Fits(s, address, 4) THEN Err("OutOfBoundsAddress", s)
    ELSE Ok([s EXCEPT !.labels = MapRemove(s.labels, address)])

\* Vec::remove(index)
RemoveAt(bucket, index) ==
    [i \in 1..(Len(bucket) - 1) |-> IF i <= index THEN bucket[i] ELSE bucket[i + 1]]

\* delete_label that removes the last name of the bucket.
delete_label_popping(s, address, index) ==
    IF ~Fits(s, address, 4) THEN Err("OutOfBoundsAddress", s)
    ELSE IF address \notin DOMAIN s.labels THEN Ok(s)
    ELSE IF index < Len(s.labels[address])
    THEN Ok([s EXCEPT !.labels[address] = SubSeq(@, 1, Len(@) - 1)])
    ELSE Err("LabelIndexOutOfBounds", s)

delete_label(s, address, index) ==
    IF ~Fits(s, address, 4) THEN Err("OutOfBoundsAddress", s)
    ELSE IF address \notin DOMAIN s.labels THEN Ok(s)
    ELSE IF index < Len(s.labels[address])
    THEN Ok([s EXCEPT !.labels[address] = RemoveAt(@, index)])
    ELSE Err("LabelIndexOutOfBounds", s)

write_f32(s, address, value) ==
    IF ~Fits(s, address, 4) THEN Err("OutOfBoundsAddress", s)
    ELSE Ok(Poke(s, address, encode_f32(value, s.endian)))

write_u8(s, address, value) ==
    IF ~validate_address(address, size(s), FALSE) THEN Err("OutOfBoundsAddress", s)
    ELSE Ok(Poke(s, address, <<value>>))

write_u16(s, address, value) ==
    IF ~Fits(s, address, 2) THEN Err("OutOfBoundsAddress", s)
    ELSE Ok(Poke(s, address, encode_u16(value, s.endian)))

\* write_u32 that writes the cell holding the address.
write_u32_aligning(s, address, value) ==
    IF ~Fits(s, address, 4) THEN Err("OutOfBoundsAddress", s)
    ELSE Ok(Poke(s, address - (address % 4), encode_u32(value, s.endian)))

write_u32(s, address, value) ==
    IF ~Fits(s, address, 4) THEN Err("OutOfBoundsAddress", s)
    ELSE Ok(Poke(s, address, encode_u32(value, s.endian)))

write_i8(s, address, value) ==
    IF ~validate_address(address, size(s), FALSE) THEN Err("OutOfBoundsAddress", s)
    ELSE Ok(Poke(s, address, <<value % 256>>))

write_i16(s, address, value) ==
    IF ~Fits(s, address, 2) THEN Err("OutOfBoundsAddress", s)
    ELSE Ok(Poke(s, address, encode_i16(value, s.endian)))

write_i32(s, address, value) ==
    IF ~Fits(s, address, 4) THEN Err("OutOfBoundsAddress", s)
    ELSE Ok(Poke(s, address, encode_i32(value, s.endian)))

write_bytes(s, address, bytes) ==
    IF ~Fits(s, address, Len(bytes)) THEN Err("OutOfBoundsAddress", s)
    ELSE Ok(Poke(s, address, bytes))

write_labels(s, address, bucket) ==
    IF ~validate_address(address, size(s), TRUE)
    THEN Err("OutOfBoundsAddress", s)
    ELSE Ok([s EXCEPT !.labels = MapPut(s.labels, address, bucket)])

(***************************************************************************)
(* BinArchive::assert_equal_regions.                                       *)
(***************************************************************************)
\* One step of the walk, on the cells source_addr of s and other_addr of o:
\* the error it returns, or "Ok".
CompareCells(s, o, source_addr, other_addr) ==
    IF ~Fits(s, source_addr, 4) \/ ~Fits(o, other_addr, 4)
    THEN "OutOfBoundsAddress"
    ELSE IF read_string(s, source_addr).value # read_string(o, other_addr).value
    THEN "ComparisonFailure"
    ELSE LET has_text == read_string(s, source_addr).value # <<>>
             has_pointer == read_pointer(s, source_addr).value # <<>>
         IN  IF has_pointer # (read_pointer(o, other_addr).value # <<>>)
             THEN "ComparisonFailure"
             ELSE IF read_labels(s, source_addr).value # read_labels(o, other_addr).value
             THEN "ComparisonFailure"
             ELSE IF /\ ~(has_text \/ has_pointer)
                     /\ read_i32(s, source_addr).value # read_i32(o, other_addr).value
             THEN "ComparisonFailure"
             ELSE "Ok"

\* The walk from step i: the error and the addresses it names.
RECURSIVE Walk(_, _, _, _, _, _)
Walk(s, o, source_start, other_start, length, i) ==
    IF i >= length THEN [err |-> "Ok", at |-> <<>>]
    ELSE LET e == CompareCells(s, o, source_start + i, other_start + i)
         IN  IF e = "Ok" THEN Walk(s, o, source_start, other_start, length, i + 4)
             ELSE [err |-> e, at |-> <<source_start + i, other_start + i>>]

assert_equal_regions(s, o, source_start, other_start, length) ==
    Walk(s, o, source_start, other_start, length, 0)

(***************************************************************************)
(* BinArchive::serialize.                                                  *)
(***************************************************************************)
EmptyPool == [raw |-> <<>>, offs |-> EmptyMap]

\* add_text that appends the string whether or not it was added before.
add_text_always_appending(pool, string) ==
    LET enc == to_shift_jis(string)
    IN  [ok |-> enc.ok,
         offset |-> Len(pool.raw),
         pool |-> [raw |-> pool.raw \o enc.bytes \o <<0>>,
                   offs |-> MapPut(pool.offs, string, Len(pool.raw))]]

\* add_text on the pair (raw_text, raw_text_offsets).
add_text(pool, string) ==
    IF string \in DOMAIN pool.offs
    THEN [ok |-> TRUE, offset |-> pool.offs[string], pool |-> pool]
    ELSE LET enc == to_shift_jis(string)
         IN  [ok |-> enc.ok,
              offset |-> Len(pool.raw),
              pool |-> [raw |-> pool.raw \o enc.bytes \o <<0>>,
                        offs |-> MapPut(pool.offs, string, Len(pool.raw))]]

\* Cursor<&mut [u8]>: seek(pos), then write(b): the bytes that fit.
WriteAt(d, pos, b) ==
    [i \in 1..Len(d) |-> IF pos < i /\ i <= pos + Len(b) THEN b[i - pos] ELSE d[i]]

\* The orders in which the label loop may meet the buckets: the stable
\* sort of the map's entries, which the map yields in any order, by
\* bucket (big-endian) or by address (little-endian).
LabelOrders(s) ==
    IF s.endian = "Big"
    THEN {o \in [1..Entries(s.labels) -> DOMAIN s.labels] :
            /\ \A i, j \in DOMAIN o : i # j => o[i] # o[j]
            /\ \A i, j \in DOMAIN o :
                  i < j => ~BucketLess(s.labels[o[j]], s.labels[o[i]])}
    ELSE {Ascending(DOMAIN s.labels)}

\* The cstrings loop: acc = [ok, pool, entries], entries the (address,
\* text_address) pairs pushed after the pointers.
RECURSIVE CStringLoop(_, _, _, _)
CStringLoop(s, keys, i, acc) ==
    IF i > Len(keys) \/ ~acc.ok THEN acc
    ELSE LET r == add_text(acc.pool, keys[i])
             text_address == Len(s.data) + r.offset
             addresses == s.cstrings[keys[i]]
         IN  CStringLoop(s, keys, i + 1,
                 [ok |-> r.ok,
                  pool |-> r.pool,
                  entries |-> acc.entries \o
                      [j \in 1..Len(addresses) |-> <<addresses[j], text_address>>]])

PadTo4(b) == b \o Zeros((4 - (Len(b) % 4)) % 4)

\* pointers.sort_by(source), a stable sort of the map's entries followed by
\* the C-string entries.
RECURSIVE BySource(_, _)
BySource(all, sources) ==
    IF sources = <<>> THEN <<>>
    ELSE LET Here(x) == x[1] = Head(sources)
         IN  SelectSeq(all, Here) \o BySource(all, Tail(sources))

SortedPointers(s, entries) ==
    LET keys == Ascending(DOMAIN s.pointers)
        all == [i \in 1..Len(keys) |-> <<keys[i], s.pointers[keys[i]]>>] \o entries
    IN  BySource(all, Ascending({all[i][1] : i \in 1..Len(all)}))

RECURSIVE WritePointers(_, _, _, _)
WritePointers(d, list, i, e) ==
    IF i > Len(list) THEN d
    ELSE WritePointers(WriteAt(d, list[i][1], encode_u32(list[i][2], e)),
                       list, i + 1, e)

\* The label loop over the buckets in the order o: acc = [ok, pool,
\* raw_labels].
RECURSIVE LabelLoop(_, _, _, _, _)
LabelLoop(s, o, i, j, acc) ==
    IF i > Len(o) \/ ~acc.ok THEN acc
    ELSE IF j > Len(s.labels[o[i]]) THEN LabelLoop(s, o, i + 1, 1, acc)
    ELSE LET r == add_text(acc.pool, s.labels[o[i]][j])
         IN  LabelLoop(s, o, i, j + 1,
                 [ok |-> r.ok,
                  pool |-> r.pool,
                  raw_labels |-> acc.raw_labels \o <<o[i], r.offset>>])

\* The text loop: acc = [ok, pool, data, order, bucket], ptr_data_pairs
\* being the offsets in insertion order with the bucket of each.
RECURSIVE TextLoop(_, _, _, _, _)
TextLoop(s, keys, i, text_start, acc) ==
    IF i > Len(keys) \/ ~acc.ok THEN acc
    ELSE LET address == keys[i]
             r == add_text(acc.pool, s.text[address])
             known == r.offset \in DOMAIN acc.bucket
         IN  TextLoop(s, keys, i + 1, text_start,
                 [ok |-> r.ok,
                  pool |-> r.pool,
                  data |-> WriteAt(acc.data, address,
                                   encode_u32(text_start + r.offset, s.endian)),
                  order |-> IF known THEN acc.order ELSE Append(acc.order, r.offset),
                  bucket |-> MapPut(acc.bucket, r.offset,
                                IF known THEN acc.bucket[r.offset] \cup {address}
                                ELSE {address})])

RECURSIVE Buckets2Pointers(_, _, _)
Buckets2Pointers(order, bucket, i) ==
    IF i > Len(order) THEN <<>>
    ELSE Ascending(bucket[order[i]]) \o Buckets2Pointers(order, bucket, i + 1)

RECURSIVE EncodeAll(_, _, _)
EncodeAll(words, i, e) ==
    IF i > Len(words) THEN <<>>
    ELSE encode_u32(words[i], e) \o EncodeAll(words, i + 1, e)

\* serialize with the label buckets met in the order o.
serialize(s, o) ==
    LET c == CStringLoop(s, AscendingStr(DOMAIN s.cstrings), 1,
                         [ok |-> TRUE, pool |-> EmptyPool, entries |-> <<>>])
        raw_cstrings == PadTo4(c.pool.raw)
        sorted == SortedPointers(s, c.entries)
        data1 == WritePointers(s.data, sorted, 1, s.endian)
        l == LabelLoop(s, o, 1, 1,
                       [ok |-> TRUE, pool |-> EmptyPool, raw_labels |-> <<>>])
        text_start == Len(s.data)
            + (Entries(s.pointers) + Entries(s.text) + Len(l.raw_labels)) * 4
        t == TextLoop(s, Ascending(DOMAIN s.text), 1, text_start,
                      [ok |-> TRUE, pool |-> l.pool, data |-> data1,
                       order |-> <<>>, bucket |-> EmptyMap])
        raw_pointers == [i \in 1..Len(sorted) |-> sorted[i][1]]
                        \o Buckets2Pointers(t.order, t.bucket, 1)
        raw_text == t.pool.raw
        file_size == Len(s.data) + Len(raw_cstrings) + Len(raw_pointers) * 4
                     + Len(l.raw_labels) * 4 + Len(raw_text) + 32
        header == <<file_size, Len(t.data) + Len(raw_cstrings),
                    Len(raw_pointers), Len(l.raw_labels) \div 2, 0, 0, 0, 0>>
    IN  IF ~c.ok \/ ~l.ok \/ ~t.ok
        THEN [err |-> "EncodingFailed", bytes |-> <<>>]
        ELSE [err |-> "Ok",
              bytes |-> EncodeAll(header, 1, s.endian) \o t.data \o raw_cstrings
                        \o EncodeAll(raw_pointers, 1, s.endian)
                        \o EncodeAll(l.raw_labels, 1, s.endian) \o raw_text]

(***************************************************************************)
(* BinArchive::from_bytes.                                                 *)
(***************************************************************************)
U32At(bytes, pos, e) == decode_u32(SubSeq(bytes, pos + 1, pos + 4), e)

\* The pointer loop, entry i of count: s is the archive so far.
RECURSIVE ReadPointers(_, _, _, _, _)
ReadPointers(bytes, data_size, s, i, count) ==
    IF i = count THEN Ok(s)
    ELSE LET pointer_address == U32At(bytes, 32 + data_size + 4 * i, s.endian)
         IN  IF ~CellFits(s, pointer_address)
             THEN Err("OutOfBoundsAddress", s)
             ELSE LET pointer_value == U32At(s.data, pointer_address, s.endian)
                      str == read_shift_jis_string(bytes, pointer_value + 32)
                  IN  IF pointer_value > data_size
                      THEN IF str.err # "Ok" THEN Err(str.err, s)
                           ELSE ReadPointers(bytes, data_size,
                                    write_string(s, pointer_address, str.string).store,
                                    i + 1, count)
                      ELSE ReadPointers(bytes, data_size,
                               write_pointer(s, pointer_address, pointer_value).store,
                               i + 1, count)

\* The label loop, entry i of count, the table starting at table.
RECURSIVE ReadLabels(_, _, _, _, _, _)
ReadLabels(bytes, table, text_start, s, i, count) ==
    IF i = count THEN Ok(s)
    ELSE LET address == U32At(bytes, table + 8 * i, s.endian)
             offset == U32At(bytes, table + 8 * i + 4, s.endian)
             str == read_shift_jis_string(bytes, text_start + offset + 32)
             w == write_label(s, address, str.string)
         IN  IF str.err # "Ok" THEN Err(str.err, s)
             ELSE IF w.err # "Ok" THEN w
             ELSE ReadLabels(bytes, table, text_start, w.store, i + 1, count)

from_bytes(bytes, e) ==
    IF Len(bytes) < 32 THEN Err("ArchiveTooSmall", new(e))
    ELSE LET data_size == U32At(bytes, 4, e)
             pointer_count == U32At(bytes, 8, e)
             label_count == U32At(bytes, 12, e)
             text_start == data_size + pointer_count * 4 + label_count * 8
         IN  IF text_start + 32 > Len(bytes) THEN Err("ArchiveTooSmall", new(e))
             ELSE LET archive == [new(e) EXCEPT !.data = SubSeq(bytes, 33, 32 + data_size)]
                      p == ReadPointers(bytes, data_size, archive, 0, pointer_count)
                  IN  IF p.err # "Ok" THEN p
                      ELSE ReadLabels(bytes, 32 + data_size + 4 * pointer_count,
                                      text_start, p.store, 0, label_count)

(***************************************************************************)
(* The state machine of structural mutations.  An initial store is any     *)
(* store a caller can build from new(endian) with allocate_at_end,         *)
(* write_u8, write_pointer, write_string and write_labels: byte i of data  *)
(* holds i (so that moved bytes are told apart from inserted zeros),       *)
(* pointer and text keys lie where a 4-byte cell fits, label keys may      *)
(* equal the size.  One structural mutation is then applied; after a       *)
(* successful allocate the caller may undo it with the same arguments.     *)
(* hist holds the store as it was before each mutation, last the call.     *)
(***************************************************************************)
\* The 4-aligned values up to limit, and one that is not aligned.
Picked(limit) == {x \in 0..limit : x % 4 = 0 \/ x = 2}

Sizes == {n \in 0..MaxSize : n % 4 = 0 \/ n = 6}

\* Addresses and amounts handed to the mutations: aligned and not, inside
\* the buffer, at its end and beyond it.
Addresses == Picked(MaxSize) \cup {MaxSize + 2}

Amounts == {0, 2, 4, 8}

Dests == Picked(MaxSize)

Buckets == {<<StrA>>, <<StrB, StrA>>}

PartialMaps(K, V, most) ==
    UNION {[S -> V] : S \in {T \in SUBSET K : Cardinality(T) <= most}}

\* A call: its arguments (arg the value written, if any), its error and
\* the value it returned (ret, if any).
Call(op, address, amount, ge, err) ==
    [op |-> op, address |-> address, amount |-> amount, ge |-> ge, err |-> err,
     arg |-> <<>>, ret |-> <<>>]

Init ==
    /\ \E n \in Sizes :
         \E t \in PartialMaps(Picked(n - 4), Strings, MaxAnn) :
           \E p \in PartialMaps(Picked(n - 4), Dests, MaxAnn - Entries(t)) :
             \E l \in PartialMaps(Picked(n), Buckets,
                                  MaxAnn - Entries(t) - Entries(p)) :
               /\ data = [i \in 1..n |-> i]
               /\ text = t
               /\ pointers = p
               /\ labels = l
    /\ cstrings = EmptyMap
    /\ endian \in Endians
    /\ hist = <<>>
    /\ file = <<>>
    /\ out = <<>>
    /\ other = new("Little")
    /\ NoFormats
    /\ last = Call("new", 0, 0, FALSE, "Ok")
    /\ phase = "fresh"

\* The largest stores of a sequence of calls: the names of a bucket and
\* the side-table entries.
MaxBucket == 2

MaxOpsAnn == 1

Bounded(s) ==
    /\ size(s) <= MaxSize
    /\ Entries(s.text) + Entries(s.pointers) + Entries(s.labels) <= MaxOpsAnn
    /\ \A k \in DOMAIN s.labels : Len(s.labels[k]) <= MaxBucket
    /\ \A k \in DOMAIN s.text \cup DOMAIN s.pointers \cup DOMAIN s.labels :
          k <= 2 * MaxSize
    /\ \A k \in DOMAIN s.pointers : s.pointers[k] <= 2 * MaxSize

\* A call can be made on a fresh store, and at any point of a sequence of
\* calls.
Callable == phase \in {"fresh", "ops"}

\* The store becomes r.store, the call is recorded: in full with the
\* store it was made on for one call, by its name and its error in a
\* sequence of calls.
ApplyWith(r, op, address, amount, ge, nextPhase, arg) ==
    /\ phase = "ops" => Bounded(r.store)
    /\ data' = r.store.data
    /\ text' = r.store.text
    /\ pointers' = r.store.pointers
    /\ labels' = r.store.labels
    /\ cstrings' = r.store.cstrings
    /\ endian' = r.store.endian
    /\ hist' = IF phase = "ops" THEN <<>> ELSE Append(hist, Cur)
    /\ last' = IF phase = "ops"
               THEN Call(op, 0, 0, FALSE, r.err)
               ELSE [Call(op, address, amount, ge, r.err) EXCEPT
                       !.arg = arg,
                       !.ret = IF "value" \in DOMAIN r THEN <<r.value>> ELSE <<>>]
    /\ phase' = IF phase = "ops" THEN "ops" ELSE nextPhase
    /\ UNCHANGED <<file, out, other, formats>>

Apply(r, op, address, amount, ge, nextPhase) ==
    ApplyWith(r, op, address, amount, ge, nextPhase, <<>>)

Allocate ==
    /\ Callable
    /\ \E address \in Addresses, amount \in Amounts, ge \in BOOLEAN :
          Apply(allocate(Cur, address, amount, ge),
                "allocate", address, amount, ge, "mutated")

Deallocate ==
    /\ Callable
    /\ \E address \in Addresses, amount \in Amounts, ge \in BOOLEAN :
          Apply(deallocate(Cur, address, amount, ge),
                "deallocate", address, amount, ge, "mutated")

Truncate ==
    /\ Callable
    /\ \E address \in 0..(MaxSize + 1) :
          Apply(truncate(Cur, address), "truncate", address, 0, FALSE, "mutated")

AllocateAtEnd ==
    /\ Callable
    /\ \E amount \in 0..4 :
          Apply(allocate_at_end(Cur, amount),
                "allocate_at_end", size(Cur), amount, FALSE, "mutated")

WriterAllocate ==
    /\ Callable
    /\ \E position \in Addresses, amount \in {1, 4}, ge \in BOOLEAN :
          Apply(writer_allocate(Cur, position, amount, ge),
                "writer_allocate", position, amount, ge, "mutated")

\* deallocate(a, n, ge) right after a successful allocate(a, n, ge).
DeallocateSame ==
    /\ phase = "mutated"
    /\ last.op = "allocate"
    /\ last.err = "Ok"
    /\ Apply(deallocate(Cur, last.address, last.amount, last.ge),
             "deallocate", last.address, last.amount, last.ge, "undone")

Next ==
    \/ Allocate
    \/ Deallocate
    \/ Truncate
    \/ AllocateAtEnd
    \/ WriterAllocate
    \/ DeallocateSame

Spec == Init /\ [][Next]_vars

(***************************************************************************)
(* Typed access: one call on a store, or a sequence of calls from the      *)
(* empty store.                                                            *)
(***************************************************************************)
\* Every address of the largest buffer, its end and one beyond.
ScalarAddresses == 0..(MaxSize + 1)

\* One value of each scalar type, with bytes that tell its byte order and
\* its position; the i8, i16 and i32 are negative.
U8Value == 200

I8Value == -3

U16Value == 513

I16Value == -2

U32Value == 16909060

I32Value == -2

F32Value == <<1, 2, 3, 200>>

ByteStrings == {<<>>, <<9>>, <<9, 8, 7, 6, 5>>}

ReadU8 ==
    /\ Callable
    /\ \E address \in ScalarAddresses :
          ApplyWith(read_u8(Cur, address), "read_u8", address, 1, FALSE, "mutated", <<>>)

ReadI8 ==
    /\ Callable
    /\ \E address \in ScalarAddresses :
          ApplyWith(read_i8(Cur, address), "read_i8", address, 1, FALSE, "mutated", <<>>)

ReadU16 ==
    /\ Callable
    /\ \E address \in ScalarAddresses :
          ApplyWith(read_u16(Cur, address), "read_u16", address, 2, FALSE, "mutated", <<>>)

ReadI16 ==
    /\ Callable
    /\ \E address \in ScalarAddresses :
          ApplyWith(read_i16(Cur, address), "read_i16", address, 2, FALSE, "mutated", <<>>)

ReadU32 ==
    /\ Callable
    /\ \E address \in ScalarAddresses :
          ApplyWith(read_u32(Cur, address), "read_u32", address, 4, FALSE, "mutated", <<>>)

ReadI32 ==
    /\ Callable
    /\ \E address \in ScalarAddresses :
          ApplyWith(read_i32(Cur, address), "read_i32", address, 4, FALSE, "mutated", <<>>)

ReadF32 ==
    /\ Callable
    /\ \E address \in ScalarAddresses :
          ApplyWith(read_f32(Cur, address), "read_f32", address, 4, FALSE, "mutated", <<>>)

ReadBytes ==
    /\ Callable
    /\ \E address \in ScalarAddresses, amount \in {0, 1, 4, 5} :
          ApplyWith(read_bytes(Cur, address, amount), "read_bytes", address, amount, FALSE, "mutated", <<>>)

ReadStringAt ==
    /\ Callable
    /\ \E address \in Addresses :
          ApplyWith(read_string(Cur, address), "read_string", address, 4, FALSE, "mutated", <<>>)

ReadPointerAt ==
    /\ Callable
    /\ \E address \in Addresses :
          ApplyWith(read_pointer(Cur, address), "read_pointer", address, 4, FALSE, "mutated", <<>>)

ReadLabelsAt ==
    /\ Callable
    /\ \E address \in Addresses :
          ApplyWith(read_labels(Cur, address), "read_labels", address, 4, FALSE, "mutated", <<>>)

WriteU8 ==
    /\ Callable
    /\ \E address \in ScalarAddresses :
          ApplyWith(write_u8(Cur, address, U8Value), "write_u8", address, 1, FALSE, "mutated", <<U8Value>>)

WriteI8 ==
    /\ Callable
    /\ \E address \in ScalarAddresses :
          ApplyWith(write_i8(Cur, address, I8Value), "write_i8", address, 1, FALSE, "mutated", <<I8Value>>)

WriteU16 ==
    /\ Callable
    /\ \E address \in ScalarAddresses :
          ApplyWith(write_u16(Cur, address, U16Value), "write_u16", address, 2, FALSE, "mutated", <<U16Value>>)

WriteI16 ==
    /\ Callable
    /\ \E address \in ScalarAddresses :
          ApplyWith(write_i16(Cur, address, I16Value), "write_i16", address, 2, FALSE, "mutated", <<I16Value>>)

WriteU32 ==
    /\ Callable
    /\ \E address \in ScalarAddresses :
          ApplyWith(write_u32(Cur, address, U32Value), "write_u32", address, 4, FALSE, "mutated", <<U32Value>>)

WriteI32 ==
    /\ Callable
    /\ \E address \in ScalarAddresses :
          ApplyWith(write_i32(Cur, address, I32Value), "write_i32", address, 4, FALSE, "mutated", <<I32Value>>)

WriteF32 ==
    /\ Callable
    /\ \E address \in ScalarAddresses :
          ApplyWith(write_f32(Cur, address, F32Value), "write_f32", address, 4, FALSE, "mutated", <<F32Value>>)

WriteBytes ==
    /\ Callable
    /\ \E address \in ScalarAddresses, bytes \in ByteStrings :
          ApplyWith(write_bytes(Cur, address, bytes), "write_bytes", address, Len(bytes), FALSE, "mutated", <<bytes>>)

WriteString ==
    /\ Callable
    /\ \E address \in Addresses, value \in Strings :
          ApplyWith(write_string(Cur, address, value), "write_string", address, 4, FALSE, "mutated", <<value>>)

WritePointer ==
    /\ Callable
    /\ \E address \in Addresses, value \in Dests :
          ApplyWith(write_pointer(Cur, address, value), "write_pointer", address, 4, FALSE, "mutated", <<value>>)

WriteLabels ==
    /\ Callable
    /\ \E address \in Addresses, bucket \in Buckets \cup {<<>>} :
          ApplyWith(write_labels(Cur, address, bucket), "write_labels", address, 0, FALSE, "mutated", <<bucket>>)

WriteLabel ==
    /\ Callable
    /\ \E address \in Addresses, label \in Strings :
          ApplyWith(write_label(Cur, address, label), "write_label", address, 0, FALSE, "mutated", <<label>>)

DeleteString ==
    /\ Callable
    /\ \E address \in Addresses :
          ApplyWith(delete_string(Cur, address), "delete_string", address, 4, FALSE, "mutated", <<>>)

DeletePointer ==
    /\ Callable
    /\ \E address \in Addresses :
          ApplyWith(delete_pointer(Cur, address), "delete_pointer", address, 4, FALSE, "mutated", <<>>)

DeleteLabels ==
    /\ Callable
    /\ \E address \in Addresses :
          ApplyWith(delete_labels(Cur, address), "delete_labels", address, 4, FALSE, "mutated", <<>>)

\* amount holds the index.
DeleteLabel ==
    /\ Callable
    /\ \E address \in Addresses, index \in 0..MaxBucket :
          ApplyWith(delete_label(Cur, address, index),
                    "delete_label", address, index, FALSE, "mutated", <<>>)

\* One call on a store: a buffer of each size, a string at cell 0, a
\* pointer at cell 4, label buckets at cell 0 and at the end.
InitAccess ==
    /\ \E n \in Sizes :
         \E t \in PartialMaps({k \in {0} : k + 4 <= n}, {StrA}, 1) :
           \E p \in PartialMaps({k \in {4} : k + 4 <= n}, {0}, 1) :
             \E l \in PartialMaps({0, n}, Buckets, 2) :
               /\ data = [i \in 1..n |-> i]
               /\ text = t
               /\ pointers = p
               /\ labels = l
    /\ cstrings = EmptyMap
    /\ endian \in Endians
    /\ hist = <<>>
    /\ file = <<>>
    /\ out = <<>>
    /\ other = new("Little")
    /\ NoFormats
    /\ last = Call("new", 0, 0, FALSE, "Ok")
    /\ phase = "fresh"

NextAccess ==
    \/ ReadU8
    \/ ReadI8
    \/ ReadU16
    \/ ReadI16
    \/ ReadU32
    \/ ReadI32
    \/ ReadF32
    \/ ReadBytes
    \/ ReadStringAt
    \/ ReadPointerAt
    \/ ReadLabelsAt
    \/ WriteU8
    \/ WriteI8
    \/ WriteU16
    \/ WriteI16
    \/ WriteU32
    \/ WriteI32
    \/ WriteF32
    \/ WriteBytes
    \/ WriteString
    \/ WritePointer
    \/ WriteLabels
    \/ WriteLabel
    \/ DeleteString
    \/ DeletePointer
    \/ DeleteLabels
    \/ DeleteLabel
    \/ Allocate
    \/ Deallocate

SpecAccess == InitAccess /\ [][NextAccess]_vars

\* A sequence of calls from BinArchive::new.
InitOps ==
    /\ data = <<>>
    /\ text = EmptyMap
    /\ pointers = EmptyMap
    /\ labels = EmptyMap
    /\ cstrings = EmptyMap
    /\ endian \in Endians
    /\ hist = <<>>
    /\ file = <<>>
    /\ out = <<>>
    /\ other = new("Little")
    /\ NoFormats
    /\ last = Call("new", 0, 0, FALSE, "Ok")
    /\ phase = "ops"

NextOps ==
    \/ WritePointer
    \/ WriteString
    \/ WriteLabel
    \/ WriteLabels
    \/ DeleteString
    \/ DeletePointer
    \/ DeleteLabels
    \/ DeleteLabel
    \/ Allocate
    \/ AllocateAtEnd
    \/ Deallocate
    \/ Truncate

SpecOps == InitOps /\ [][NextOps]_vars

\* The store before the last call, and the store before the first.
Pre == hist[Len(hist)]

Orig == hist[1]

(***************************************************************************)
(* Parsing a file and serializing the store it yields.                     *)
(***************************************************************************)
\* The pointer tables, the label tables (address, offset pairs) and the
\* text sections of the files.
PointerTables == {<<>>, <<0>>, <<4>>, <<0, 4>>, <<4, 0>>, <<0, 0>>}

LabelTables ==
    {<<>>, <<0, 0>>, <<4, 0>>, <<0, 0, 0, 2>>, <<0, 0, 4, 2>>, <<4, 2, 0, 0>>}

TextSections ==
    {<<>>, <<65, 0>>, <<65, 0, 66, 0>>, <<66, 0, 65, 0>>, <<65, 0, 65, 0>>, <<65>>}

\* The data sections of n cells: a cell holds 0, 4, or the address of the
\* first or the third byte of the text section, which starts at ts.
DataSections(n, ts) == [1..n -> {0, 4, ts, ts + 2}]

\* The bytes of a file with the header fields sz and pad; InitBytes also
\* cuts a file short of its tables by one byte.
Layout(e, sz, pad, cells, ptrs, lbls, txt) ==
    EncodeAll(<<sz, 4 * Len(cells), Len(ptrs), Len(lbls) \div 2, pad, 0, 0, 0>>, 1, e)
    \o EncodeAll(cells, 1, e) \o EncodeAll(ptrs, 1, e) \o EncodeAll(lbls, 1, e) \o txt

InitBytes ==
    /\ endian \in Endians
    /\ \E n \in 0..MaxFileCells, ptrs \in PointerTables, lbls \in LabelTables,
          txt \in TextSections, rightSize \in BOOLEAN, pad \in {0, 1} :
         \E cells \in DataSections(n, 4 * n + 4 * Len(ptrs) + 4 * Len(lbls)) :
           LET total == 32 + 4 * n + 4 * Len(ptrs) + 4 * Len(lbls) + Len(txt)
               whole == Layout(endian, IF rightSize THEN total ELSE 0, pad,
                               cells, ptrs, lbls, txt)
           IN  \E cut \in IF rightSize /\ pad = 0 THEN {0, Len(txt) + 1} ELSE {0} :
                  file = SubSeq(whole, 1, Len(whole) - cut)
    /\ data = <<>>
    /\ text = EmptyMap
    /\ pointers = EmptyMap
    /\ labels = EmptyMap
    /\ cstrings = EmptyMap
    /\ hist = <<>>
    /\ out = <<>>
    /\ other = new("Little")
    /\ NoFormats
    /\ last = Call("new", 0, 0, FALSE, "Ok")
    /\ phase = "input"

FromBytes ==
    /\ phase = "input"
    /\ LET r == from_bytes(file, endian)
       IN  /\ data' = r.store.data
           /\ text' = r.store.text
           /\ pointers' = r.store.pointers
           /\ labels' = r.store.labels
           /\ cstrings' = r.store.cstrings
           /\ last' = Call("from_bytes", 0, 0, FALSE, r.err)
           /\ phase' = IF r.err = "Ok" THEN "parsed" ELSE "rejected"
    /\ UNCHANGED <<endian, hist, file, out, other, formats>>

Serialize ==
    /\ phase \in {"parsed", "built"}
    /\ \E o \in LabelOrders(Cur) :
         LET r == serialize(Cur, o)
         IN  /\ out' = r.bytes
             /\ last' = Call("serialize", 0, 0, FALSE, r.err)
    /\ phase' = "serialized"
    /\ UNCHANGED <<data, text, pointers, labels, cstrings, endian, hist, file, other, formats>>

NextBytes ==
    \/ FromBytes
    \/ Serialize

SpecBytes == InitBytes /\ [][NextBytes]_vars

(***************************************************************************)
(* Serializing a store that was built by hand.                             *)
(***************************************************************************)
StrAB == <<65, 66>>

StoreStrings == {StrA, StrB, StrAB}

StoreBuckets == {<<StrA>>, <<StrB>>, <<StrB, StrA>>}

\* The 4-aligned cells of a buffer of n bytes.
Cells(n) == {k \in 0..(n - 4) : k % 4 = 0}

\* A store of up to MaxCells cells with at most MaxAnn strings, pointers
\* and label buckets at its cells (a bucket may sit at the end), and one
\* staged C-string for the last cell or none.
InitStore ==
    /\ \E c \in 0..MaxCells :
         \E t \in PartialMaps(Cells(4 * c), StoreStrings, MaxAnn) :
           \E p \in PartialMaps(Cells(4 * c), {0, 4}, MaxAnn - Entries(t)) :
             \E l \in PartialMaps(Cells(4 * c) \cup {4 * c}, StoreBuckets,
                                  MaxAnn - Entries(t) - Entries(p)) :
               \E cs \in PartialMaps({StrA}, {<<k>> : k \in {4 * c - 4} \cap Nat}, 1) :
                 /\ data = [i \in 1..(4 * c) |-> i]
                 /\ text = t
                 /\ pointers = p
                 /\ labels = l
                 /\ cstrings = cs
    /\ endian \in Endians
    /\ hist = <<>>
    /\ file = <<>>
    /\ out = <<>>
    /\ other = new("Little")
    /\ NoFormats
    /\ last = Call("new", 0, 0, FALSE, "Ok")
    /\ phase = "built"

NextStore == Serialize

SpecStore == InitStore /\ [][NextStore]_vars

(***************************************************************************)
(* Comparing a region of a store with a region of another.                 *)
(***************************************************************************)
\* The most cells and side-table entries of a compared store.
MaxRegionCells == 2

MaxRegionAnn == 1

\* The raw content of a cell: one word and its mirror image.
Words == {<<1, 2, 3, 4>>, <<4, 3, 2, 1>>}

RECURSIVE Flatten(_)
Flatten(ws) == IF ws = <<>> THEN <<>> ELSE Head(ws) \o Flatten(Tail(ws))

\* The stores of c cells.
RegionStores(c) ==
    UNION {UNION {UNION {
        {Store(Flatten(ws), t, p, l, EmptyMap, e) :
            ws \in [1..c -> Words], e \in Endians,
            l \in PartialMaps(Cells(4 * c), Buckets,
                              MaxRegionAnn - Entries(t) - Entries(p))} :
        p \in PartialMaps(Cells(4 * c), {0}, MaxRegionAnn - Entries(t))} :
        t \in PartialMaps(Cells(4 * c), Strings, MaxRegionAnn)}}

InitRegions ==
    /\ \E c \in 0..MaxRegionCells : \E s \in RegionStores(c) :
         /\ data = s.data
         /\ text = s.text
         /\ pointers = s.pointers
         /\ labels = s.labels
         /\ cstrings = s.cstrings
         /\ endian = s.endian
    /\ \E c \in 0..MaxRegionCells : other \in RegionStores(c)
    /\ NoFormats
    /\ hist = <<>>
    /\ file = <<>>
    /\ out = <<>>
    /\ last = Call("new", 0, 0, FALSE, "Ok")
    /\ phase = "fresh"

\* address is source_start, amount is length, arg holds other_start and
\* ret the addresses the error names.
AssertEqualRegions ==
    /\ phase = "fresh"
    /\ \E source_start \in {0, 4}, other_start \in {0, 4}, length \in {0, 2, 4, 8} :
         LET r == assert_equal_regions(Cur, other, source_start, other_start, length)
         IN  last' = [Call("assert_equal_regions", source_start, length, FALSE, r.err)
                        EXCEPT !.arg = <<other_start>>, !.ret = r.at]
    /\ phase' = "compared"
    /\ UNCHANGED <<data, text, pointers, labels, cstrings, endian, hist, file, out, other, formats>>

NextRegions == AssertEqualRegions

SpecRegions == InitRegions /\ [][NextRegions]_vars

(***************************************************************************)
(* TextArchive (src/src/text_archive.rs): an insertion-ordered map from    *)
(* key to message with a title, in the legacy Shift-JIS format or in       *)
(* UTF-16 with a Shift-JIS title.  A LinkedHashMap<String, String> is the  *)
(* sequence of its entries [key, value] in iteration order.                *)
(***************************************************************************)
\* The most keys of a text archive.
MaxKeys == 2

Backslash == 92
LetterN == 110
LineFeed == 10
Yen == 165

Formats == {"ShiftJIS", "Unicode"}

\* LinkedHashMap::get, contains_key
Position(entries, key) ==
    {i \in 1..Len(entries) : entries[i].key = key}

LinkedGet(entries, key) ==
    IF Position(entries, key) = {} THEN <<>>
    ELSE <<entries[CHOOSE i \in Position(entries, key) : TRUE].value>>

\* LinkedHashMap::remove
LinkedRemove(entries, key) ==
    LET Other(e) == e.key # key IN SelectSeq(entries, Other)

\* LinkedHashMap::insert: an existing key takes the new value and moves to
\* the back.
LinkedInsert(entries, key, value) ==
    Append(LinkedRemove(entries, key), [key |-> key, value |-> value])

\* insert in the place of the entry assignment: the key moves to the back.
LinkedEntryAssign_moving(entries, key, value) ==
    Append(LinkedRemove(entries, key), [key |-> key, value |-> value])

\* *entries.entry(key).or_insert(String::new()) = value: the entry of an
\* existing key is assigned in place.
LinkedEntryAssign(entries, key, value) ==
    IF Position(entries, key) = {}
    THEN Append(entries, [key |-> key, value |-> value])
    ELSE [i \in 1..Len(entries) |->
             IF entries[i].key = key THEN [key |-> key, value |-> value]
             ELSE entries[i]]

\* str::replace(from, to): the non-overlapping matches of from, met from
\* the left, become to.
RECURSIVE replace(_, _, _)
replace(string, from, to) ==
    IF Len(string) < Len(from) THEN string
    ELSE IF SubSeq(string, 1, Len(from)) = from
    THEN to \o replace(SubSeq(string, Len(from) + 1, Len(string)), from, to)
    ELSE <<Head(string)>> \o replace(Tail(string), from, to)

TextArchive_new(format, e) ==
    [title |-> <<>>, entries |-> <<>>, dirty |-> FALSE, format |-> format,
     endian |-> e]

\* get_message that returns the stored message as it is.
get_message_raw(ta, key) == LinkedGet(ta.entries, key)

get_message(ta, key) ==
    LET found == LinkedGet(ta.entries, key)
    IN  IF found = <<>> THEN <<>>
        ELSE <<replace(found[1], <<LineFeed>>, <<Backslash, LetterN>>)>>

set_message(ta, key, message) ==
    [ta EXCEPT
       !.entries = LinkedEntryAssign(ta.entries, key,
                       replace(message, <<Backslash, LetterN>>, <<LineFeed>>)),
       !.dirty = TRUE]

delete_message(ta, key) ==
    [ta EXCEPT !.entries = LinkedRemove(ta.entries, key)]

set_title(ta, new_title) == [ta EXCEPT !.title = new_title]

\* to_utf_16: the code units of the string, each lowest byte first.  The
\* alphabet of the model lies in the basic plane, one unit per code point.
to_utf_16(string) ==
    [i \in 1..(2 * Len(string)) |->
        IF i % 2 = 1 THEN string[(i + 1) \div 2] % 256
        ELSE string[i \div 2] \div 256]

\* write_shift_jis_string and write_utf_16_string on the vector bytes.
write_shift_jis_string(bytes, string) ==
    LET enc == to_shift_jis(string)
    IN  [ok |-> enc.ok, bytes |-> PadTo4(bytes \o enc.bytes \o <<0>>)]

write_utf_16_string(bytes, string) ==
    [ok |-> TRUE, bytes |-> PadTo4(bytes \o to_utf_16(string) \o <<0, 0>>)]

\* while self.tell() % 4 != 0 { self.skip(1) }
Align4(position) == position + ((4 - (position % 4)) % 4)

\* BinArchiveReader::read_shift_jis_string at position: the string and the
\* position after it.
reader_read_shift_jis_string(s, position) ==
    LET r == read_shift_jis_string(s.data, position)
    IN  [err |-> r.err, string |-> r.string,
         position |-> Align4(position + Len(r.string) + 1)]

\* BinArchiveReader::read_utf_16_string at position: pairs of bytes up to
\* the first pair of zeros; a pair the data does not hold ends the read
\* with UnterminatedString, a unit that is half of a surrogate pair with
\* DecodingFailed.
reader_read_utf_16_string(s, position) ==
    LET pairs == {k \in 0..Len(s.data) :
                    /\ position + 2 * k + 2 <= Len(s.data)
                    /\ s.data[position + 2 * k + 1] = 0
                    /\ s.data[position + 2 * k + 2] = 0}
    IN  IF pairs = {}
        THEN [err |-> "UnterminatedString", string |-> <<>>, position |-> position]
        ELSE LET n == CHOOSE k \in pairs : \A j \in pairs : k <= j
                 units == [i \in 1..n |->
                              s.data[position + 2 * i - 1]
                              + 256 * s.data[position + 2 * i]]
             IN  IF \E i \in 1..n : units[i] >= 55296 /\ units[i] <= 57343
                 THEN [err |-> "DecodingFailed", string |-> <<>>,
                       position |-> position]
                 ELSE [err |-> "Ok", string |-> units,
                       position |-> Align4(position + 2 * n + 2)]

\* The loop of from_archive with the reader at position.
RECURSIVE ReadEntries(_, _, _)
ReadEntries(s, ta, position) ==
    IF ~(position < size(s)) THEN [err |-> "Ok", archive |-> ta]
    ELSE LET l == read_labels(s, position)
             m == IF ta.format = "ShiftJIS"
                  THEN reader_read_shift_jis_string(s, position)
                  ELSE reader_read_utf_16_string(s, position)
         IN  IF l.err # "Ok" THEN [err |-> l.err, archive |-> ta]
             ELSE IF m.err # "Ok" THEN [err |-> m.err, archive |-> ta]
             ELSE ReadEntries(s,
                      IF l.value = <<>> \/ l.value[1] = <<>> THEN ta
                      ELSE [ta EXCEPT !.entries =
                               LinkedInsert(ta.entries, l.value[1][1], m.string)],
                      m.position)

TextArchive_from_archive(s, format, e) ==
    LET fresh == TextArchive_new(format, e)
        t == reader_read_shift_jis_string(s, 0)
    IN  IF format = "Unicode"
        THEN IF t.err # "Ok" THEN [err |-> t.err, archive |-> fresh]
             ELSE ReadEntries(s, [fresh EXCEPT !.title = t.string], t.position)
        ELSE ReadEntries(s, fresh, 0)

TextArchive_from_bytes(raw_archive, format, e) ==
    LET b == from_bytes(raw_archive, e)
    IN  IF b.err # "Ok"
        THEN [err |-> b.err, archive |-> TextArchive_new(format, e)]
        ELSE TextArchive_from_archive(b.store, format, e)

\* The loop of serialize over the entries: acc = [ok, bytes, label_info].
RECURSIVE WriteEntries(_, _, _)
WriteEntries(ta, i, acc) ==
    IF i > Len(ta.entries) \/ ~acc.ok THEN acc
    ELSE LET w == IF ta.format = "ShiftJIS"
                  THEN write_shift_jis_string(acc.bytes, ta.entries[i].value)
                  ELSE write_utf_16_string(acc.bytes, ta.entries[i].value)
         IN  WriteEntries(ta, i + 1,
                 [ok |-> w.ok, bytes |-> w.bytes,
                  label_info |-> Append(acc.label_info,
                                        <<ta.entries[i].key, Len(acc.bytes)>>)])

\* The write_label loop of serialize.
RECURSIVE WriteLabelInfo(_, _, _)
WriteLabelInfo(s, label_info, i) ==
    IF i > Len(label_info) THEN Ok(s)
    ELSE LET w == write_label(s, label_info[i][2], label_info[i][1])
         IN  IF w.err # "Ok" THEN w
             ELSE WriteLabelInfo(w.store, label_info, i + 1)

\* The archive that TextArchive::serialize builds, with the error that
\* ends the building.
TextArchive_build(ta) ==
    LET t == IF ta.format = "Unicode"
             THEN write_shift_jis_string(<<>>, ta.title)
             ELSE [ok |-> TRUE, bytes |-> <<>>]
        w == WriteEntries(ta, 1, [ok |-> t.ok, bytes |-> t.bytes, label_info |-> <<>>])
        archive == allocate_at_end(new(ta.endian), Len(w.bytes)).store
        b == write_bytes(archive, 0, w.bytes)
    IN  IF ~t.ok \/ ~w.ok THEN Err("EncodingFailed", new(ta.endian))
        ELSE IF b.err # "Ok" THEN b
        ELSE WriteLabelInfo(b.store, w.label_info, 1)

\* TextArchive::serialize, the label buckets of the archive met in the
\* order o.
TextArchive_serialize(ta, o) ==
    LET b == TextArchive_build(ta)
    IN  IF b.err # "Ok" THEN [err |-> b.err, bytes |-> <<>>]
        ELSE serialize(b.store, o)

(***************************************************************************)
(* The state machine of a text archive: a new archive takes any sequence   *)
(* of set_message, get_message, delete_message and set_title calls, is     *)
(* serialized, and the bytes are parsed again.  inserted holds the keys in  *)
(* the order of their first insertion since they were last deleted; the    *)
(* store variables hold the archive that serialize builds, hist the text   *)
(* archive that was serialized.                                            *)
(***************************************************************************)
KeyNames == <<StrA, StrB, StrAB>>

TextKeys == {KeyNames[i] : i \in 1..(IF MaxKeys < 3 THEN MaxKeys ELSE 3)}

\* Messages as a caller passes them: plain, with the escape, with a line
\* feed, with a backslash before the escape, with a yen sign.
TextMessages ==
    {<<>>, StrA, <<Backslash, LetterN>>, <<65, Backslash, LetterN, 66>>,
     <<LineFeed>>, <<Backslash, Backslash, LetterN>>, <<Yen>>}

Titles == {<<>>, StrA}

TextCall(op, err, arg, ret) ==
    [Call(op, 0, 0, FALSE, err) EXCEPT !.arg = arg, !.ret = ret]

InitText ==
    /\ \E format \in Formats, e \in Endians :
         /\ textArchive = TextArchive_new(format, e)
         /\ endian = e
    /\ inserted = <<>>
    /\ aset = <<>>
    /\ assets = <<>>
    /\ reader = <<>>
    /\ arc = <<>>
    /\ data = <<>>
    /\ text = EmptyMap
    /\ pointers = EmptyMap
    /\ labels = EmptyMap
    /\ cstrings = EmptyMap
    /\ hist = <<>>
    /\ file = <<>>
    /\ out = <<>>
    /\ other = new("Little")
    /\ last = Call("new", 0, 0, FALSE, "Ok")
    /\ phase = "text"

store_vars == <<data, text, pointers, labels, cstrings, endian>>

SetMessage ==
    /\ phase = "text"
    /\ \E key \in TextKeys, message \in TextMessages :
         /\ textArchive' = set_message(textArchive, key, message)
         /\ inserted' = IF \E i \in 1..Len(inserted) : inserted[i] = key THEN inserted
                     ELSE Append(inserted, key)
         /\ last' = TextCall("set_message", "Ok", <<key, message>>, <<>>)
    /\ UNCHANGED <<store_vars, hist, phase, file, out, other, aset, assets, reader, arc>>

GetMessage ==
    /\ phase = "text"
    /\ \E key \in TextKeys :
         last' = TextCall("get_message", "Ok", <<key>>, get_message(textArchive, key))
    /\ UNCHANGED <<store_vars, hist, phase, file, out, other, formats>>

DeleteMessage ==
    /\ phase = "text"
    /\ \E key \in TextKeys :
         /\ textArchive' = delete_message(textArchive, key)
         /\ inserted' = LET Other(k) == k # key IN SelectSeq(inserted, Other)
         /\ last' = TextCall("delete_message", "Ok", <<key>>, <<>>)
    /\ UNCHANGED <<store_vars, hist, phase, file, out, other, aset, assets, reader, arc>>

SetTitle ==
    /\ phase = "text"
    /\ \E new_title \in Titles :
         /\ textArchive' = set_title(textArchive, new_title)
         /\ last' = TextCall("set_title", "Ok", <<new_title>>, <<>>)
    /\ UNCHANGED <<store_vars, hist, phase, file, out, other, inserted, aset, assets, reader, arc>>

SerializeText ==
    /\ phase = "text"
    /\ LET b == TextArchive_build(textArchive)
       IN  /\ data' = b.store.data
           /\ text' = b.store.text
           /\ pointers' = b.store.pointers
           /\ labels' = b.store.labels
           /\ cstrings' = b.store.cstrings
           /\ endian' = b.store.endian
           /\ \E o \in LabelOrders(b.store) :
                LET r == TextArchive_serialize(textArchive, o)
                IN  /\ out' = r.bytes
                    /\ last' = TextCall("serialize", r.err, <<>>, <<>>)
    /\ hist' = <<textArchive>>
    /\ phase' = "written"
    /\ UNCHANGED <<file, other, formats>>

FromBytesText ==
    /\ phase = "written"
    /\ last.err = "Ok"
    /\ LET r == TextArchive_from_bytes(out, textArchive.format, textArchive.endian)
       IN  /\ textArchive' = r.archive
           /\ last' = TextCall("from_bytes", r.err, <<>>, <<>>)
    /\ phase' = "reread"
    /\ UNCHANGED <<store_vars, hist, file, out, other, inserted, aset, assets, reader, arc>>

NextText ==
    \/ SetMessage
    \/ GetMessage
    \/ DeleteMessage
    \/ SetTitle
    \/ SerializeText
    \/ FromBytesText

SpecText == InitText /\ [][NextText]_vars

(***************************************************************************)
(* ASetFile (src/src/aset.rs): a metadata string, a table of 257 optional  *)
(* clip names and a sequence of animation sets, each a vector of optional  *)
(* names with the label of the set in slot 0.  FE14ASet                    *)
(* (src/src/fe14_aset.rs) reads and writes its sets with the same code.    *)
(* A 32-bit flags word is the set of its bits that are 1, so that bit 31   *)
(* is a flag like the others.                                              *)
(***************************************************************************)
\* The most sets of an animation-set file.
MaxSets == 2

\* for _ in 0..257
ClipNames == 257

\* for i in 0..8, for bit in 0..32
Sections == 8

SectionBits == 32

\* "AnimClipNameTable"
AnimClipNameTable ==
    <<65, 110, 105, 109, 67, 108, 105, 112, 78, 97, 109, 101, 84, 97, 98, 108, 101>>

\* The byte of a flags word that holds the bits 8k .. 8k + 7.
FlagByte(flags, k) ==
    (IF 8 * k \in flags THEN 1 ELSE 0) + (IF 8 * k + 1 \in flags THEN 2 ELSE 0)
    + (IF 8 * k + 2 \in flags THEN 4 ELSE 0) + (IF 8 * k + 3 \in flags THEN 8 ELSE 0)
    + (IF 8 * k + 4 \in flags THEN 16 ELSE 0) + (IF 8 * k + 5 \in flags THEN 32 ELSE 0)
    + (IF 8 * k + 6 \in flags THEN 64 ELSE 0) + (IF 8 * k + 7 \in flags THEN 128 ELSE 0)

\* Endian::encode_u32 and decode_u32 of a flags word.
encode_flags(flags, e) ==
    LET le == [k \in 1..4 |-> FlagByte(flags, k - 1)]
    IN  IF e = "Little" THEN le ELSE <<le[4], le[3], le[2], le[1]>>

decode_flags(b, e) ==
    LET le == IF e = "Little" THEN b ELSE <<b[4], b[3], b[2], b[1]>>
    IN  {i \in 0..31 : (le[(i \div 8) + 1] \div (2 ^ (i % 8))) % 2 = 1}

\* write_u32 and read_u32 of a flags word.
write_flags(s, address, flags) ==
    IF ~Fits(s, address, 4) THEN Err("OutOfBoundsAddress", s)
    ELSE Ok(Poke(s, address, encode_flags(flags, s.endian)))

read_flags(s, address) ==
    IF ~Fits(s, address, 4) THEN Err("OutOfBoundsAddress", s)
    ELSE Got(s, decode_flags(Bytes(s, address, 4), s.endian))

\* write_string(address, value) with an optional value.
write_string_opt(s, address, value) ==
    IF value = <<>> THEN delete_string(s, address)
    ELSE write_string(s, address, value[1])

\* BinArchiveReader::read_label(index): the first name of the bucket at
\* the address index.
read_label(s, index) ==
    LET l == read_labels(s, index)
    IN  IF l.err # "Ok" THEN l
        ELSE Got(s, IF l.value = <<>> \/ l.value[1] = <<>> THEN <<>>
                    ELSE <<l.value[1][1]>>)

\* find_label_address: the addresses it can return, the map yielding its
\* buckets in any order.
find_label_address(s, target) ==
    {a \in DOMAIN s.labels : \E i \in 1..Len(s.labels[a]) : s.labels[a][i] = target}

ASetFile_new(meta) == [meta |-> meta, anim_clip_table |-> <<>>, sets |-> <<>>]

\* set.get(index).map(|entry| entry.is_some()).unwrap_or_default()
Present(set, index) == index + 1 <= Len(set) /\ set[index + 1] # <<>>

\* compiled_flags[flag_set] of a set.
compiled_flags(set, flag_set) ==
    {bit \in 0..(SectionBits - 1) : Present(set, flag_set * SectionBits + bit + 1)}

main_flags_of(set) ==
    {flag_set \in 0..(Sections - 1) : compiled_flags(set, flag_set) # {}}

strings_to_write(set) ==
    Cardinality({index \in 1..(Sections * SectionBits) : Present(set, index)})

\* for name in &self.anim_clip_table { writer.write_string(name) }, the
\* writer at position: entry i is written at position + 4 * i, a name
\* with write_string and an absent one with delete_string.
WriteClipTable(s, position, table) ==
    LET At(i) == position + 4 * (i - 1)
        named == {At(i) : i \in {n \in 1..Len(table) : table[n] # <<>>}}
        absent == {At(i) : i \in {n \in 1..Len(table) : table[n] = <<>>}}
    IN  IF \E i \in 1..Len(table) : ~Fits(s, At(i), 4)
        THEN [err |-> "OutOfBoundsAddress", store |-> s, position |-> position]
        ELSE [err |-> "Ok",
              store |-> [s EXCEPT !.text =
                  [a \in (DOMAIN s.text \ absent) \cup named |->
                      IF a \in named THEN table[((a - position) \div 4) + 1][1]
                      ELSE s.text[a]]],
              position |-> position + 4 * Len(table)]

\* for j in 0..32: the names of section i from bit j on.
RECURSIVE WriteNames(_, _, _, _, _)
WriteNames(s, position, set, i, j) ==
    IF j >= SectionBits THEN [err |-> "Ok", store |-> s, position |-> position]
    ELSE IF ~Present(set, i * SectionBits + j + 1)
    THEN WriteNames(s, position, set, i, j + 1)
    ELSE LET w == write_string(s, position, set[i * SectionBits + j + 2][1])
         IN  IF w.err # "Ok"
             THEN [err |-> w.err, store |-> s, position |-> position]
             ELSE WriteNames(w.store, position + 4, set, i, j + 1)

\* for (i, flag) in compiled_flags: the sections from i on.
RECURSIVE WriteSections(_, _, _, _)
WriteSections(s, position, set, i) ==
    IF i >= Sections THEN [err |-> "Ok", store |-> s, position |-> position]
    ELSE IF compiled_flags(set, i) = {}
    THEN WriteSections(s, position, set, i + 1)
    ELSE LET f == write_flags(s, position, compiled_flags(set, i))
             n == WriteNames(f.store, position + 4, set, i, 0)
         IN  IF f.err # "Ok"
             THEN [err |-> f.err, store |-> s, position |-> position]
             ELSE IF n.err # "Ok" THEN n
             ELSE WriteSections(n.store, n.position, set, i + 1)

\* for set in &self.sets: the sets from k on.
RECURSIVE WriteSets(_, _, _, _)
WriteSets(s, position, sets, k) ==
    IF k > Len(sets) THEN [err |-> "Ok", store |-> s, position |-> position]
    ELSE LET set == sets[k]
             words == Cardinality(main_flags_of(set)) + strings_to_write(set) + 1
             grown == allocate_at_end(s, words * 4).store
             l == IF set[1] # <<>> THEN write_label(grown, position, set[1][1])
                  ELSE Ok(grown)
             m == write_flags(l.store, position, main_flags_of(set))
             c == WriteSections(m.store, position + 4, set, 0)
         IN  IF l.err # "Ok"
             THEN [err |-> l.err, store |-> s, position |-> position]
             ELSE IF m.err # "Ok"
             THEN [err |-> m.err, store |-> s, position |-> position]
             ELSE IF c.err # "Ok" THEN c
             ELSE WriteSets(c.store, c.position, sets, k + 1)

\* The archive that ASetFile::serialize builds.
ASetFile_build(a) ==
    LET s0 == allocate_at_end(new("Little"), 12).store
        s1 == write_u32(s0, 0, 4)
        s2 == write_string_opt(s1.store, 4, a.meta)
        s3 == write_u32(s2.store, 8, 256)
        s4 == allocate_at_end(s3.store, Len(a.anim_clip_table) * 4).store
        s5 == write_label(s4, 12, AnimClipNameTable)
        s6 == WriteClipTable(s5.store, 12, a.anim_clip_table)
    IN  IF s1.err # "Ok" THEN s1
        ELSE IF s2.err # "Ok" THEN s2
        ELSE IF s3.err # "Ok" THEN s3
        ELSE IF s5.err # "Ok" THEN s5
        ELSE IF s6.err # "Ok" THEN s6
        ELSE WriteSets(s6.store, s6.position, a.sets, 1)

\* ASetFile::serialize, the label buckets met in the order o.
ASetFile_serialize(a, o) ==
    LET b == ASetFile_build(a)
    IN  IF b.err # "Ok" THEN [err |-> b.err, bytes |-> <<>>]
        ELSE serialize(b.store, o)

\* The strings of a section whose flags word is at position: the 32 slots
\* and the position after the section.
ReadSection(s, position) ==
    LET f == read_flags(s, position)
        Before(bit) == Cardinality({c \in f.value : c < bit})
        At(bit) == position + 4 + 4 * Before(bit)
    IN  IF f.err # "Ok" THEN [err |-> f.err, slots |-> <<>>, position |-> position]
        ELSE IF \E bit \in f.value : ~Fits(s, At(bit), 4)
        THEN [err |-> "OutOfBoundsAddress", slots |-> <<>>, position |-> position]
        ELSE [err |-> "Ok",
              slots |-> [n \in 1..SectionBits |->
                            IF (n - 1) \in f.value
                            THEN read_string(s, At(n - 1)).value ELSE <<>>],
              position |-> position + 4 + 4 * Cardinality(f.value)]

\* for i in 0..8: the sections from i on, set holding the slots so far.
RECURSIVE ReadSections(_, _, _, _, _)
ReadSections(s, position, main_flags, i, set) ==
    IF i >= Sections THEN [err |-> "Ok", set |-> set, position |-> position]
    ELSE IF i \notin main_flags
    THEN ReadSections(s, position, main_flags, i + 1,
                      set \o [n \in 1..SectionBits |-> <<>>])
    ELSE LET r == ReadSection(s, position)
         IN  IF r.err # "Ok" THEN [err |-> r.err, set |-> set, position |-> position]
             ELSE ReadSections(s, r.position, main_flags, i + 1, set \o r.slots)

\* while reader.tell() < archive.size()
RECURSIVE ReadSets(_, _, _)
ReadSets(s, position, a) ==
    IF ~(position < size(s)) THEN [err |-> "Ok", aset |-> a]
    ELSE LET l == read_label(s, 0)
             m == read_flags(s, position)
             r == ReadSections(s, position + 4, m.value, 0, <<l.value>>)
         IN  IF l.err # "Ok" THEN [err |-> l.err, aset |-> a]
             ELSE IF m.err # "Ok" THEN [err |-> m.err, aset |-> a]
             ELSE IF r.err # "Ok" THEN [err |-> r.err, aset |-> a]
             ELSE ReadSets(s, r.position, [a EXCEPT !.sets = Append(a.sets, r.set)])

\* for _ in 0..257 { aset.anim_clip_table.push(reader.read_string()?) }
ReadClipTable(s, position) ==
    IF \E i \in 0..(ClipNames - 1) : ~Fits(s, position + 4 * i, 4)
    THEN [err |-> "OutOfBoundsAddress", table |-> <<>>]
    ELSE [err |-> "Ok",
          table |-> [n \in 1..ClipNames |-> read_string(s, position + 4 * (n - 1)).value]]

\* ASetFile::from_archive, find_label_address returning
\* anim_clip_table_address.
ASetFile_from_archive(s, anim_clip_table_address) ==
    LET meta == read_string(s, 4)
        t == ReadClipTable(s, anim_clip_table_address)
    IN  IF meta.err # "Ok" THEN [err |-> meta.err, aset |-> ASetFile_new(<<>>)]
        ELSE IF t.err # "Ok" THEN [err |-> t.err, aset |-> ASetFile_new(meta.value)]
        ELSE ReadSets(s, anim_clip_table_address + 4 * ClipNames,
                      [ASetFile_new(meta.value) EXCEPT !.anim_clip_table = t.table])

(***************************************************************************)
(* The state machine of an animation-set file: a file built by a caller    *)
(* is serialized, the bytes are parsed into a store and the store is read  *)
(* by from_archive.  The store variables hold the archive that serialize   *)
(* builds and then the one from_bytes returns, hist the file that was      *)
(* serialized.                                                             *)
(***************************************************************************)
\* An absent label and two labels.
SetLabels == {<<>>, <<StrA>>, <<StrB>>}

\* The slots of a set that hold a name: none, the first of two sections,
\* the last of the first and of the last section.
SlotChoices == {{}, {1, 33}, {32, 256}}

MakeSet(label, present) ==
    <<label>> \o [n \in 1..(Sections * SectionBits) |->
                    IF n \in present THEN <<IF n % 2 = 1 THEN StrA ELSE StrB>>
                    ELSE <<>>]

SetChoices == {MakeSet(label, present) : label \in SetLabels, present \in SlotChoices}

ClipTables ==
    {[n \in 1..ClipNames |-> <<>>],
     [n \in 1..ClipNames |-> IF n = 2 THEN <<StrAB>> ELSE <<>>]}

InitASet ==
    /\ \E meta \in {<<>>, <<StrA>>}, table \in ClipTables, n \in 0..MaxSets :
         \E sets \in [1..n -> SetChoices] :
           aset = [meta |-> meta, anim_clip_table |-> table, sets |-> sets]
    /\ textArchive = <<>>
    /\ inserted = <<>>
    /\ assets = <<>>
    /\ reader = <<>>
    /\ arc = <<>>
    /\ data = <<>>
    /\ text = EmptyMap
    /\ pointers = EmptyMap
    /\ labels = EmptyMap
    /\ cstrings = EmptyMap
    /\ endian = "Little"
    /\ hist = <<>>
    /\ file = <<>>
    /\ out = <<>>
    /\ other = new("Little")
    /\ last = Call("new", 0, 0, FALSE, "Ok")
    /\ phase = "aset"

SerializeASet ==
    /\ phase = "aset"
    /\ LET b == ASetFile_build(aset)
       IN  /\ data' = b.store.data
           /\ text' = b.store.text
           /\ pointers' = b.store.pointers
           /\ labels' = b.store.labels
           /\ cstrings' = b.store.cstrings
           /\ endian' = b.store.endian
           /\ \E o \in LabelOrders(b.store) :
                LET r == IF b.err # "Ok" THEN [err |-> b.err, bytes |-> <<>>]
                         ELSE serialize(b.store, o)
                IN  /\ out' = r.bytes
                    /\ last' = Call("serialize", 0, 0, FALSE, r.err)
    /\ hist' = <<aset>>
    /\ phase' = "written"
    /\ UNCHANGED <<file, other, formats>>

\* BinArchive::from_bytes on the serialized bytes, then
\* ASetFile::from_archive on the store.
FromArchiveASet ==
    /\ phase = "written"
    /\ hist # <<>>
    /\ aset # <<>>
    /\ last.err = "Ok"
    /\ LET b == from_bytes(out, "Little")
           found == find_label_address(b.store, AnimClipNameTable)
       IN  /\ data' = b.store.data
           /\ text' = b.store.text
           /\ pointers' = b.store.pointers
           /\ labels' = b.store.labels
           /\ cstrings' = b.store.cstrings
           /\ endian' = b.store.endian
           /\ IF b.err # "Ok"
              THEN /\ aset' = ASetFile_new(<<>>)
                   /\ last' = Call("from_bytes", 0, 0, FALSE, b.err)
              ELSE IF found = {}
              THEN /\ aset' = ASetFile_new(<<>>)
                   /\ last' = Call("from_archive", 0, 0, FALSE, "OtherError")
              ELSE \E anim_clip_table_address \in found :
                     LET r == ASetFile_from_archive(b.store, anim_clip_table_address)
                     IN  /\ aset' = r.aset
                         /\ last' = Call("from_archive", anim_clip_table_address,
                                         0, FALSE, r.err)
    /\ phase' = "reread"
    /\ UNCHANGED <<hist, file, out, other, textArchive, inserted, assets, reader, arc>>

NextASet ==
    \/ SerializeASet
    \/ FromArchiveASet

SpecASet == InitASet /\ [][NextASet]_vars

(***************************************************************************)
(* AssetSpec and AssetBinary (src/src/asset_binary.rs).  The fields of a   *)
(* spec are numbered by their bit of the bitmap: strings[1] is the name,   *)
(* strings[i + 1] the optional string of bit i (1 conditional1 .. 31       *)
(* footstep_sound, 32 clothing_sound, 33 voice); uses holds the bits       *)
(* 34 .. 51 whose use_* flag is set (34 hair_color, 35 skin_color,         *)
(* 36 weapon_trail_color, 37 model_size, 38 head_size, 39 pupil_y,         *)
(* 40 .. 43 unk3 .. unk6, 44 bitflags, 45 .. 51 unk7 .. unk13) and values  *)
(* the value of each.  asset_binary.rs calls BinArchive::new() and         *)
(* from_bytes without an endian; the model takes either.                   *)
(***************************************************************************)
\* The most specs of an asset table.
MaxSpecs == 2

LastString == 33

FirstExtension == 32

LastField == 51

ColorFields == {34, 35, 36, 44}

FloatFields == {37, 38, 39}

StringFields == 1..LastString

NumericFields == (LastString + 1)..LastField

\* Default::default() of a field.
DefaultValue(i) == IF i \in ColorFields \cup FloatFields THEN <<0, 0, 0, 0>> ELSE 0

AssetSpec_new ==
    [strings |-> [i \in 1..(LastString + 1) |-> <<>>],
     uses |-> {},
     values |-> [i \in NumericFields |-> DefaultValue(i)]]

\* The bits of the bitmap that compute_flags sets for the fields.
FieldBits(spec) ==
    {i \in StringFields : spec.strings[i + 1] # <<>>} \cup spec.uses

\* flags[4] == 0 && flags[5] == 0 && flags[6] == 0 does not hold.
Extended(spec) == \E i \in FieldBits(spec) : i >= FirstExtension

\* compute_flags that leaves bit 0 of the first byte clear.
compute_flags_unmarked(spec) ==
    LET len == IF Extended(spec) THEN 8 ELSE 4
    IN  [flags |-> [k \in 1..len |-> FlagByte(FieldBits(spec), k - 1)],
         size |-> len + 4 + 4 * Cardinality(FieldBits(spec))]

\* compute_flags: the bitmap and the size of the spec.
compute_flags(spec) ==
    LET len == IF Extended(spec) THEN 8 ELSE 4
        bits == FieldBits(spec) \cup (IF Extended(spec) THEN {0} ELSE {})
    IN  [flags |-> [k \in 1..len |-> FlagByte(bits, k - 1)],
         size |-> len + 4 + 4 * Cardinality(FieldBits(spec))]

\* read_color and write_color: the bytes 0 and 2 change places.
swap_color(c) == <<c[3], c[2], c[1], c[4]>>

\* The write of the field of bit i at position.
write_field(s, position, spec, i) ==
    IF i \in StringFields THEN write_string(s, position, spec.strings[i + 1][1])
    ELSE IF i \in ColorFields THEN write_bytes(s, position, swap_color(spec.values[i]))
    ELSE IF i \in FloatFields THEN write_f32(s, position, spec.values[i])
    ELSE write_u32(s, position, spec.values[i])

\* The writes of append after the name: the fields of the bits list[i..].
RECURSIVE AppendFields(_, _, _, _, _)
AppendFields(s, position, spec, list, i) ==
    IF i > Len(list) THEN Ok(s)
    ELSE LET w == write_field(s, position, spec, list[i])
         IN  IF w.err # "Ok" THEN w
             ELSE AppendFields(w.store, position + 4, spec, list, i + 1)

\* AssetSpec::append
append(spec, s) ==
    LET c == compute_flags(spec)
        address == size(s)
        grown == allocate_at_end(s, c.size).store
        b == write_bytes(grown, address, c.flags)
        n == write_string_opt(b.store, address + Len(c.flags), spec.strings[1])
        written == IF Len(c.flags) > 4 THEN FieldBits(spec)
                   ELSE {i \in FieldBits(spec) : i < FirstExtension}
    IN  IF b.err # "Ok" THEN b
        ELSE IF n.err # "Ok" THEN n
        ELSE AppendFields(n.store, address + Len(c.flags) + 4, spec,
                          Ascending(written), 1)

\* The read of the field of bit i at position: a string, a color, a float
\* or an integer.
read_field(s, position, i) ==
    IF i \in StringFields THEN read_string(s, position)
    ELSE IF i \in ColorFields
    THEN LET r == read_bytes(s, position, 4)
         IN  IF r.err # "Ok" THEN r ELSE Got(s, swap_color(r.value))
    ELSE IF i \in FloatFields THEN read_f32(s, position)
    ELSE read_u32(s, position)

\* The bitmap that from_stream reads at position: let raw_flags_start =
\* reader.read_u8()?, the 3 or 7 bytes after it, and the bits that are set.
read_bitmap(s, position) ==
    LET raw == read_u8(s, position)
        flag_count == IF raw.value % 2 = 1 THEN 7 ELSE 3
        rest == read_bytes(s, position + 1, flag_count)
        flags == <<raw.value>> \o rest.value
    IN  IF raw.err # "Ok" THEN [err |-> raw.err, count |-> 0, bits |-> {}]
        ELSE IF rest.err # "Ok" THEN [err |-> rest.err, count |-> 0, bits |-> {}]
        ELSE [err |-> "Ok", count |-> 1 + flag_count,
              bits |-> {i \in 1..(8 * (1 + flag_count) - 1) :
                          (flags[(i \div 8) + 1] \div (2 ^ (i % 8))) % 2 = 1}]

\* The fields that from_stream reads after the bitmap: the name, then the
\* field of every bit that is set, in order, each in the cell after the
\* one before.
read_fields(s, position, bitmap) ==
    LET bits == bitmap.bits \cap 1..LastField
        At(i) == position + bitmap.count + 4
                 + 4 * Cardinality({j \in bits : j < i})
        failed == [err |-> "OutOfBoundsAddress", spec |-> AssetSpec_new,
                   position |-> position]
    IN  IF bitmap.err # "Ok" THEN failed
        ELSE IF read_string(s, position + bitmap.count).err # "Ok" THEN failed
        ELSE IF \E i \in bits : read_field(s, At(i), i).err # "Ok" THEN failed
        ELSE [err |-> "Ok",
              spec |-> [strings |-> [n \in 1..(LastString + 1) |->
                                       IF n = 1
                                       THEN read_string(s, position + bitmap.count).value
                                       ELSE IF (n - 1) \in bits
                                       THEN read_string(s, At(n - 1)).value
                                       ELSE <<>>],
                        uses |-> bits \cap NumericFields,
                        values |-> [i \in NumericFields |->
                                      IF i \in bits THEN read_field(s, At(i), i).value
                                      ELSE DefaultValue(i)]],
              position |-> position + bitmap.count + 4 + 4 * Cardinality(bits)]

\* AssetSpec::from_stream with the reader at position: the spec and the
\* position after it.
from_stream(s, position) ==
    CHOOSE r \in {read_fields(s, position, bitmap) :
                    bitmap \in {read_bitmap(s, position)}} : TRUE

AssetBinary_new == [flags |-> 0, specs |-> <<>>]

\* for spec in &self.specs { spec.append(&mut archive)? }
RECURSIVE AppendSpecs(_, _, _)
AppendSpecs(s, specs, i) ==
    IF i > Len(specs) THEN Ok(s)
    ELSE LET a == append(specs[i], s)
         IN  IF a.err # "Ok" THEN a ELSE AppendSpecs(a.store, specs, i + 1)

\* The archive that AssetBinary::serialize builds.
AssetBinary_build(binary, e) ==
    LET s0 == allocate_at_end(new(e), 4).store
        s1 == write_u32(s0, 0, binary.flags)
        s2 == AppendSpecs(s1.store, binary.specs, 1)
    IN  IF s1.err # "Ok" THEN s1
        ELSE IF s2.err # "Ok" THEN s2
        ELSE allocate_at_end(s2.store, 4)

(***************************************************************************)
(* The state machine of an asset table: a table built by a caller is       *)
(* serialized; a further spec is appended to the archive and read back     *)
(* with from_stream; the serialized bytes are parsed into a store; and     *)
(* from_archive reads a table from the empty archive, from the archive     *)
(* that serialize built, from the parsed one, or from the one with the     *)
(* further spec after the end marker.  from_archive takes one step for     *)
(* the header word, one for each turn of its loop and one to return;       *)
(* reader holds its position, the table read so far and the error flag.    *)
(***************************************************************************)
\* A color, the float 1.0 and an integer, with bytes that tell their order.
AssetColor == <<1, 2, 3, 4>>

AssetFloat == <<0, 0, 128, 63>>

AssetInt == 16909060

MakeSpec(name, strs, uses) ==
    [strings |-> [n \in 1..(LastString + 1) |->
                    IF n = 1 THEN name
                    ELSE IF (n - 1) \in strs
                    THEN <<IF n % 2 = 0 THEN StrA ELSE StrB>>
                    ELSE <<>>],
     uses |-> uses,
     values |-> [i \in NumericFields |->
                   IF i \notin uses THEN DefaultValue(i)
                   ELSE IF i \in ColorFields THEN AssetColor
                   ELSE IF i \in FloatFields THEN AssetFloat
                   ELSE AssetInt]]

\* Specs without and with the extension: no field, the first and the last
\* string of the short bitmap, clothing_sound and a color without a name,
\* voice with a float and an integer, bitflags and the last integer.
AssetChoices ==
    {MakeSpec(<<>>, {}, {}),
     MakeSpec(<<StrA>>, {1, 31}, {}),
     MakeSpec(<<>>, {32}, {34}),
     MakeSpec(<<StrB>>, {7, 33}, {37, 40}),
     MakeSpec(<<StrA>>, {8}, {44, 51})}

InitAssets ==
    /\ \E flags \in {0, AssetInt}, n \in 0..MaxSpecs :
         \E specs \in [1..n -> AssetChoices] :
           assets = [flags |-> flags, specs |-> specs]
    /\ reader = <<>>
    /\ textArchive = <<>>
    /\ inserted = <<>>
    /\ aset = <<>>
    /\ arc = <<>>
    /\ data = <<>>
    /\ text = EmptyMap
    /\ pointers = EmptyMap
    /\ labels = EmptyMap
    /\ cstrings = EmptyMap
    /\ endian \in Endians
    /\ hist = <<>>
    /\ file = <<>>
    /\ out = <<>>
    /\ other = new("Little")
    /\ last = Call("new", 0, 0, FALSE, "Ok")
    /\ phase = "assets"

\* The store becomes s.
Becomes(s) ==
    /\ data' = s.data
    /\ text' = s.text
    /\ pointers' = s.pointers
    /\ labels' = s.labels
    /\ cstrings' = s.cstrings
    /\ endian' = s.endian

other_formats == <<textArchive, inserted, aset, arc>>

SerializeAssets ==
    /\ phase = "assets"
    /\ LET b == AssetBinary_build(assets, endian)
       IN  /\ Becomes(b.store)
           /\ \E o \in LabelOrders(b.store) :
                LET r == IF b.err # "Ok" THEN [err |-> b.err, bytes |-> <<>>]
                         ELSE serialize(b.store, o)
                IN  /\ out' = r.bytes
                    /\ last' = Call("serialize", 0, 0, FALSE, r.err)
    /\ phase' = "written"
    /\ UNCHANGED <<hist, file, other, assets, reader, other_formats>>

\* address is the size of the archive before the call, arg the spec.
AppendSpec ==
    /\ phase = "written"
    /\ assets # <<>>
    /\ last.err = "Ok"
    /\ \E spec \in AssetChoices :
         LET a == append(spec, Cur)
         IN  /\ Becomes(a.store)
             /\ last' = [Call("append", size(Cur), 0, FALSE, a.err) EXCEPT
                           !.arg = <<spec>>]
    /\ phase' = "appended"
    /\ UNCHANGED <<hist, file, out, other, assets, reader, other_formats>>

\* from_stream with the reader at the address of the appended spec: ret
\* is the spec it returns, amount the position after it.
FromStream ==
    /\ phase = "appended"
    /\ last.op = "append"
    /\ LET r == from_stream(Cur, last.address)
       IN  last' = [Call("from_stream", last.address, r.position, FALSE, r.err)
                      EXCEPT !.arg = last.arg, !.ret = <<r.spec>>]
    /\ phase' = "streamed"
    /\ UNCHANGED <<store_vars, hist, file, out, other, assets, reader, other_formats>>

\* BinArchive::from_bytes on the serialized table.
ParseAssets ==
    /\ phase = "written"
    /\ assets # <<>>
    /\ last.err = "Ok"
    /\ LET b == from_bytes(out, endian)
       IN  /\ Becomes(b.store)
           /\ last' = Call("from_bytes", 0, 0, FALSE, b.err)
    /\ phase' = "parsed"
    /\ UNCHANGED <<hist, file, out, other, assets, reader, other_formats>>

\* from_archive up to its loop: binary.flags = reader.read_u32()?
ReadHeader ==
    /\ phase \in {"assets", "written", "parsed", "appended"}
    /\ assets # <<>>
    /\ last.err = "Ok"
    /\ LET f == read_u32(Cur, 0)
       IN  IF f.err # "Ok"
           THEN /\ reader' = [position |-> 0, binary |-> AssetBinary_new,
                              error |-> FALSE, source |-> phase]
                /\ last' = Call("from_archive", 0, 0, FALSE, f.err)
                /\ phase' = "returned"
           ELSE /\ reader' = [position |-> 4,
                              binary |-> [AssetBinary_new EXCEPT !.flags = f.value],
                              error |-> FALSE, source |-> phase]
                /\ last' = Call("from_archive", 0, 0, FALSE, "Ok")
                /\ phase' = "reading"
    /\ UNCHANGED <<store_vars, hist, file, out, other, assets, other_formats>>

\* ReadSpec whose loop ends after the first spec it pushes.
ReadSpec_once ==
    /\ phase = "reading"
    /\ ~reader.error
    /\ \E r \in {from_stream(Cur, reader.position)} :
          reader' = IF r.err = "Ok"
                    THEN [reader EXCEPT
                            !.binary.specs = Append(reader.binary.specs, r.spec),
                            !.position = r.position,
                            !.error = TRUE]
                    ELSE [reader EXCEPT !.error = TRUE]
    /\ UNCHANGED <<store_vars, hist, file, out, other, assets, last, phase,
                   other_formats>>

\* One turn of while !error: a spec is pushed or the error flag is set.
ReadSpec ==
    /\ phase = "reading"
    /\ ~reader.error
    /\ \E r \in {from_stream(Cur, reader.position)} :
          reader' = IF r.err = "Ok"
                    THEN [reader EXCEPT
                            !.binary.specs = Append(reader.binary.specs, r.spec),
                            !.position = r.position]
                    ELSE [reader EXCEPT !.error = TRUE]
    /\ UNCHANGED <<store_vars, hist, file, out, other, assets, last, phase,
                   other_formats>>

\* Ok(binary)
ReturnAssets ==
    /\ phase = "reading"
    /\ reader.error
    /\ last' = [Call("from_archive", 0, 0, FALSE, "Ok") EXCEPT
                  !.ret = <<reader.binary>>]
    /\ phase' = "returned"
    /\ UNCHANGED <<store_vars, hist, file, out, other, assets, reader, other_formats>>

NextAssets ==
    \/ SerializeAssets
    \/ AppendSpec
    \/ FromStream
    \/ ParseAssets
    \/ ReadHeader
    \/ ReadSpec
    \/ ReturnAssets

\* from_archive runs to its end once it is called: its loop and its return
\* are steps of one call.
SpecAssets ==
    InitAssets /\ [][NextAssets]_vars /\ WF_vars(ReadSpec) /\ WF_vars(ReturnAssets)

(***************************************************************************)
(* The legacy arc bundle of src/src/fe9_arc.rs: a LinkedHashMap of names   *)
(* to file contents and its big-endian file of a header, the names and     *)
(* the files, each section padded to 32 bytes.                             *)
(***************************************************************************)
MaxFiles == 2

BASE_HEADER_SIZE == 8

PADDING_BOUNDARY == 32

\* MAGIC.to_be_bytes(), 0x7061636B
MAGIC == <<112, 97, 99, 107>>

METADATA_SIZE == 16

\* while (header_length + raw.len()) % PADDING_BOUNDARY != 0 { raw.push(0) }
PadTo32(before, raw) ==
    raw \o Zeros((PADDING_BOUNDARY - ((before + Len(raw)) % PADDING_BOUNDARY))
                 % PADDING_BOUNDARY)

\* (value as u16).to_be_bytes()
encode_u16_be(value) == <<(value \div 256) % 256, value % 256>>

\* The text loop of serialize from entry i: the addresses of the names and
\* the text, or the error of to_shift_jis.
RECURSIVE ArcText(_, _, _, _, _)
ArcText(contents, header_length, i, raw_text, text_addresses) ==
    IF i > Len(contents)
    THEN [err |-> "Ok", raw_text |-> raw_text, text_addresses |-> text_addresses]
    ELSE LET raw == to_shift_jis(contents[i].key)
         IN  IF ~raw.ok
             THEN [err |-> "EncodingFailed", raw_text |-> raw_text,
                   text_addresses |-> text_addresses]
             ELSE ArcText(contents, header_length, i + 1,
                          raw_text \o raw.bytes \o <<0>>,
                          Append(text_addresses, header_length + Len(raw_text)))

\* The file loop of serialize from entry i: before is header_length +
\* raw_text.len().
RECURSIVE ArcFiles(_, _, _, _, _)
ArcFiles(contents, before, i, raw_files, file_info) ==
    IF i > Len(contents) THEN [raw_files |-> raw_files, file_info |-> file_info]
    ELSE ArcFiles(contents, before, i + 1,
                  PadTo32(before, raw_files \o contents[i].value),
                  Append(file_info, <<before + Len(raw_files), Len(contents[i].value)>>))

\* The metadata of the entries from i on: 4 zero bytes, the address of the
\* name, the address and the unpadded size of the file.
RECURSIVE ArcMetadata(_, _, _)
ArcMetadata(text_addresses, file_info, i) ==
    IF i > Len(file_info) THEN <<>>
    ELSE Zeros(4) \o encode_u32(text_addresses[i], "Big")
         \o encode_u32(file_info[i][1], "Big")
         \o encode_u32(file_info[i][2], "Big")
         \o ArcMetadata(text_addresses, file_info, i + 1)

\* fe9_arc::serialize
fe9_serialize(contents) ==
    LET header_length == BASE_HEADER_SIZE + Len(contents) * METADATA_SIZE
        names == ArcText(contents, header_length, 1, <<>>, <<>>)
        raw_text == PadTo32(header_length, names.raw_text)
        files == ArcFiles(contents, header_length + Len(raw_text), 1, <<>>, <<>>)
    IN  IF names.err # "Ok" THEN [err |-> names.err, bytes |-> <<>>]
        ELSE [err |-> "Ok",
              bytes |-> MAGIC \o encode_u16_be(Len(contents)) \o <<0, 0>>
                        \o ArcMetadata(names.text_addresses, files.file_info, 1)
                        \o raw_text \o files.raw_files]

\* The file loop of parse from entry i of file_count: the name at its
\* address, the contents at theirs, and entries.insert(name, contents).
RECURSIVE ArcEntries(_, _, _, _)
ArcEntries(raw, file_count, i, entries) ==
    IF i = file_count THEN [err |-> "Ok", entries |-> entries]
    ELSE LET at == BASE_HEADER_SIZE + METADATA_SIZE * i
             name_address == U32At(raw, at + 4, "Big")
             file_address == U32At(raw, at + 8, "Big")
             file_size_unpadded == U32At(raw, at + 12, "Big")
             name == read_shift_jis_string(raw, name_address)
         IN  IF name.err # "Ok" THEN [err |-> name.err, entries |-> <<>>]
             ELSE IF file_size_unpadded > 0 /\ file_address + file_size_unpadded > Len(raw)
             THEN [err |-> "UnexpectedEof", entries |-> <<>>]
             ELSE ArcEntries(raw, file_count, i + 1,
                             LinkedInsert(entries, name.string,
                                          SubSeq(raw, file_address + 1,
                                                 file_address + file_size_unpadded)))

\* fe9_arc::parse: the magic, the count, the metadata of every entry and
\* then the files.  A wrong magic reaches todo!().
fe9_parse(raw) ==
    IF Len(raw) < 4 THEN [err |-> "UnexpectedEof", entries |-> <<>>]
    ELSE IF SubSeq(raw, 1, 4) # MAGIC THEN [err |-> "Panic", entries |-> <<>>]
    ELSE IF Len(raw) < 6 THEN [err |-> "UnexpectedEof", entries |-> <<>>]
    ELSE LET file_count == 256 * raw[5] + raw[6]
         IN  IF Len(raw) < BASE_HEADER_SIZE + METADATA_SIZE * file_count
             THEN [err |-> "UnexpectedEof", entries |-> <<>>]
             ELSE ArcEntries(raw, file_count, 0, <<>>)

(***************************************************************************)
(* The bundle as a state machine: a map of up to MaxFiles files is         *)
(* serialized and the bytes are parsed.                                    *)
(***************************************************************************)
\* The empty name, two plain names, the yen sign and the backslash.
ArcNames == {<<>>, StrA, StrAB, <<Yen>>, <<Backslash>>}

\* No byte, the five bytes of the round_trip test, one padding unit and
\* one byte more than a unit.
ArcBlobs ==
    {<<>>, <<1, 2, 3, 4, 5>>, [i \in 1..PADDING_BOUNDARY |-> i],
     [i \in 1..(PADDING_BOUNDARY + 1) |-> 255]}

\* The maps of n distinct names, in every insertion order.
ArcMaps(n) ==
    {m \in [1..n -> [key : ArcNames, value : ArcBlobs]] :
       \A i, j \in 1..n : i # j => m[i].key # m[j].key}

InitArc ==
    /\ \E n \in 0..MaxFiles : \E m \in ArcMaps(n) : arc = m
    /\ textArchive = <<>>
    /\ inserted = <<>>
    /\ aset = <<>>
    /\ assets = <<>>
    /\ reader = <<>>
    /\ data = <<>>
    /\ text = EmptyMap
    /\ pointers = EmptyMap
    /\ labels = EmptyMap
    /\ cstrings = EmptyMap
    /\ endian = "Big"
    /\ hist = <<>>
    /\ file = <<>>
    /\ out = <<>>
    /\ other = new("Little")
    /\ last = Call("new", 0, 0, FALSE, "Ok")
    /\ phase = "arc"

SerializeArc ==
    /\ phase = "arc"
    /\ LET r == fe9_serialize(arc)
       IN  /\ out' = r.bytes
           /\ last' = Call("serialize", 0, 0, FALSE, r.err)
    /\ phase' = "packed"
    /\ UNCHANGED <<store_vars, hist, file, other, formats>>

ParseArc ==
    /\ phase = "packed"
    /\ last.err = "Ok"
    /\ LET r == fe9_parse(out)
       IN  last' = [Call("parse", 0, 0, FALSE, r.err) EXCEPT !.ret = <<r.entries>>]
    /\ phase' = "unpacked"
    /\ UNCHANGED <<store_vars, hist, file, out, other, formats>>

NextArc ==
    \/ SerializeArc
    \/ ParseArc

SpecArc == InitArc /\ [][NextArc]_vars

(***************************************************************************)
(* Staged C strings: write_c_string on a store, a structural mutation of   *)
(* the store, and serialize.                                               *)
(***************************************************************************)
\* let bucket = self.cstrings.entry(value).or_insert_with(|| Vec::new());
\* bucket.push(address)
write_c_string(s, address, value) ==
    IF ~CellFits(s, address)
    THEN Err("OutOfBoundsAddress", s)
    ELSE Ok([s EXCEPT !.cstrings =
                MapPut(s.cstrings, value,
                       (IF value \in DOMAIN s.cstrings THEN s.cstrings[value] ELSE <<>>)
                       \o <<address>>)])

\* A store of one cell or more without side-table entries.
InitCStrings ==
    /\ \E c \in 1..MaxCells : data = [i \in 1..(4 * c) |-> i]
    /\ text = EmptyMap
    /\ pointers = EmptyMap
    /\ labels = EmptyMap
    /\ cstrings = EmptyMap
    /\ endian \in Endians
    /\ hist = <<>>
    /\ file = <<>>
    /\ out = <<>>
    /\ other = new("Little")
    /\ NoFormats
    /\ last = Call("new", 0, 0, FALSE, "Ok")
    /\ phase = "bare"

\* The store becomes r.store after the call op, and the call before it
\* joins the history of calls.
Staged(r, op, address, amount, ge, arg, nextPhase) ==
    /\ data' = r.store.data
    /\ text' = r.store.text
    /\ pointers' = r.store.pointers
    /\ labels' = r.store.labels
    /\ cstrings' = r.store.cstrings
    /\ endian' = r.store.endian
    /\ hist' = IF phase = "bare" THEN <<>> ELSE Append(hist, last)
    /\ last' = [Call(op, address, amount, ge, r.err) EXCEPT !.arg = arg]
    /\ phase' = nextPhase
    /\ UNCHANGED <<file, out, other, formats>>

WriteCString ==
    /\ phase = "bare"
    /\ \E address \in Cells(MaxSize) \cup {MaxSize}, value \in Strings :
          Staged(write_c_string(Cur, address, value), "write_c_string",
                 address, 0, FALSE, <<value>>, "staged")

\* write_pointer(a, Some(0)) on the cell of the staged C string: the call
\* is not recorded, write_c_string stays the last call.
WritePointerStaged ==
    /\ phase = "staged"
    /\ last.err = "Ok"
    /\ pointers = EmptyMap
    /\ pointers' = write_pointer(Cur, last.address, 0).store.pointers
    /\ UNCHANGED <<data, text, labels, cstrings, endian, hist, last, phase,
                   file, out, other, formats>>

AllocateStaged ==
    /\ phase = "staged"
    /\ last.err = "Ok"
    /\ \E address \in Addresses, amount \in Amounts, ge \in BOOLEAN :
          Staged(allocate(Cur, address, amount, ge), "allocate",
                 address, amount, ge, <<>>, "moved")

DeallocateStaged ==
    /\ phase = "staged"
    /\ last.err = "Ok"
    /\ \E address \in Addresses, amount \in Amounts, ge \in BOOLEAN :
          Staged(deallocate(Cur, address, amount, ge), "deallocate",
                 address, amount, ge, <<>>, "moved")

TruncateStaged ==
    /\ phase = "staged"
    /\ last.err = "Ok"
    /\ \E address \in 0..(MaxSize + 1) :
          Staged(truncate(Cur, address), "truncate", address, 0, FALSE, <<>>, "moved")

\* serialize of the store as the calls left it.
SerializeStaged ==
    /\ phase \in {"staged", "moved"}
    /\ last.err = "Ok"
    /\ \E o \in LabelOrders(Cur) :
         LET r == serialize(Cur, o)
         IN  /\ out' = r.bytes
             /\ last' = Call("serialize", 0, 0, FALSE, r.err)
    /\ hist' = Append(hist, last)
    /\ phase' = "emitted"
    /\ UNCHANGED <<data, text, pointers, labels, cstrings, endian, file, other, formats>>

NextCStrings ==
    \/ WriteCString
    \/ WritePointerStaged
    \/ AllocateStaged
    \/ DeallocateStaged
    \/ TruncateStaged
    \/ SerializeStaged

SpecCStrings == InitCStrings /\ [][NextCStrings]_vars

(***************************************************************************)
(* A store without C strings is serialized and the bytes are parsed into   *)
(* another store.                                                          *)
(***************************************************************************)
\* The 4-aligned addresses below n.
AlignedBelow(n) == {k \in 0..(n - 1) : k % 4 = 0}

\* "A", "B", the empty string and the yen sign.
RoundStrings == {StrA, StrB, <<>>, <<Yen>>}

RoundBuckets == {<<StrA>>, <<StrB, StrA>>, <<StrA, StrA>>, <<<<>>>>}

\* A store a caller can build: a buffer of whole cells or of one cell and
\* a half (what truncate(6) leaves of two cells), text and pointers on
\* distinct 4-aligned addresses below its length, destinations up to its
\* length, buckets that are not empty on 4-aligned addresses up to its
\* length.
InitRound ==
    /\ \E n \in Sizes :
         \E t \in PartialMaps(AlignedBelow(n), RoundStrings, MaxAnn) :
           \E p \in PartialMaps(AlignedBelow(n) \ DOMAIN t, {0, 2, n},
                                MaxAnn - Entries(t)) :
             \E l \in PartialMaps(AlignedBelow(n + 1), RoundBuckets,
                                  MaxAnn - Entries(t) - Entries(p)) :
               /\ data = [i \in 1..n |-> i]
               /\ text = t
               /\ pointers = p
               /\ labels = l
    /\ cstrings = EmptyMap
    /\ endian \in Endians
    /\ hist = <<>>
    /\ file = <<>>
    /\ out = <<>>
    /\ other = new("Little")
    /\ NoFormats
    /\ last = Call("new", 0, 0, FALSE, "Ok")
    /\ phase = "whole"

SerializeRound ==
    /\ phase = "whole"
    /\ \E o \in LabelOrders(Cur) :
         LET r == serialize(Cur, o)
         IN  /\ out' = r.bytes
             /\ last' = Call("serialize", 0, 0, FALSE, r.err)
    /\ phase' = "flat"
    /\ UNCHANGED <<store_vars, hist, file, other, formats>>

\* BinArchive::from_bytes(&bytes, endian) on the bytes serialize returned.
FromBytesRound ==
    /\ phase = "flat"
    /\ last.err = "Ok"
    /\ LET r == from_bytes(out, endian)
       IN  /\ other' = r.store
           /\ last' = Call("from_bytes", 0, 0, FALSE, r.err)
    /\ phase' = "back"
    /\ UNCHANGED <<store_vars, hist, file, out, formats>>

NextRound ==
    \/ SerializeRound
    \/ FromBytesRound

SpecRound == InitRound /\ [][NextRound]_vars

(***************************************************************************)
(* Claims about from_bytes and serialize.                                  *)
(***************************************************************************)
\* C1: whenever from_bytes accepts a buffer, serialize on the store it
\* returns, unmodified, succeeds and yields that buffer byte for byte.
C1_ByteRoundTrip ==
    phase = "serialized" => last.err = "Ok" /\ out = file

\* A buffer whose size field is not its length, accepted by from_bytes
\* and serialized to a buffer that differs from it in that field only.
C1_OnlySizeDiffers ==
    /\ phase = "serialized"
    /\ U32At(file, 0, endian) # Len(file)
    /\ Len(out) = Len(file)
    /\ \A i \in 5..Len(file) : out[i] = file[i]
    /\ out # file

(***************************************************************************)
(* Claims about allocate, deallocate and truncate.                         *)
(***************************************************************************)
Did(op) == phase = "mutated" /\ last.op = op

DidOk(op) == Did(op) /\ last.err = "Ok"

Tables(s) == <<s.text, s.pointers, s.labels>>

SameTables(s1, s2) == Tables(s1) = Tables(s2)

\* The key a rewriting sends k to: k + n at or beyond the boundary
\* (beyond it only, when atToo is FALSE).
Moved(k, a, n, atToo) == IF k > a \/ (k = a /\ atToo) THEN k + n ELSE k

\* m2 holds exactly the entries of m1, the one of key k at key[k] with
\* value val[k].
Rewritten(m1, m2, key, val) ==
    /\ DOMAIN m2 = {key[k] : k \in DOMAIN m1}
    /\ \A k \in DOMAIN m1 : m2[key[k]] = val[k]
    /\ Entries(m2) = Entries(m1)

\* C2, as claimed: allocate(a, n, ge) with 4-aligned a <= size and 4-aligned
\* n > 0, immediately followed by deallocate(a, n, ge), restores the data
\* bytes and the pointers, labels and text tables, for either value of ge.
C2_DeallocateUndoesAllocate ==
    (phase = "undone" /\ last.amount > 0) =>
        /\ last.err = "Ok"
        /\ data = Orig.data
        /\ SameTables(Cur, Orig)

\* C2, amended: with ge = TRUE the pair restores the store exactly; with
\* ge = FALSE it restores the data bytes, the text table, every label
\* bucket that was not at a and every pointer whose destination was not a,
\* and it drops the label bucket at a and the pointers whose destination
\* was a.
C2_DeallocateUndoesAllocateAmended ==
    (phase = "undone" /\ last.amount > 0) =>
        LET a == last.address
            keptLabels == IF last.ge THEN DOMAIN Orig.labels
                          ELSE DOMAIN Orig.labels \ {a}
            keptPointers == IF last.ge THEN DOMAIN Orig.pointers
                            ELSE {k \in DOMAIN Orig.pointers : Orig.pointers[k] # a}
        IN  /\ last.err = "Ok"
            /\ data = Orig.data
            /\ text = Orig.text
            /\ cstrings = Orig.cstrings
            /\ labels = [k \in keptLabels |-> Orig.labels[k]]
            /\ pointers = [k \in keptPointers |-> Orig.pointers[k]]

\* C2's case: an allocate(a, n, FALSE) at a labelled address a, with a
\* pointer aimed at a, undone by deallocate(a, n, FALSE).
C2_Witness ==
    /\ phase = "undone"
    /\ last.amount > 0
    /\ ~last.ge
    /\ last.address \in DOMAIN Orig.labels
    /\ \E k \in DOMAIN Orig.pointers : Orig.pointers[k] = last.address

\* C3, as claimed: after a successful allocate(a, n, FALSE) every annotation
\* (pointer, text, label bucket) recorded at an address < a is at the same
\* address with the same value, and every one recorded at an address >= a
\* is at address + n with its value unchanged.
C3_AllocationNeutrality ==
    (DidOk("allocate") /\ ~last.ge) =>
        LET a == last.address
            n == last.amount
            Key(m) == [k \in DOMAIN m |-> IF k >= a THEN k + n ELSE k]
        IN  /\ Rewritten(Pre.text, text, Key(Pre.text), Pre.text)
            /\ Rewritten(Pre.pointers, pointers, Key(Pre.pointers), Pre.pointers)
            /\ Rewritten(Pre.labels, labels, Key(Pre.labels), Pre.labels)

\* C3, amended: after a successful allocate(a, n, FALSE) every text
\* annotation and every pointer source recorded at an address < a is at the
\* same address and every one recorded at an address >= a is at address + n;
\* text values are unchanged and a pointer's destination is unchanged when
\* it is <= a and increased by n when it is > a; every label bucket recorded
\* at an address <= a is at the same address and every one recorded at an
\* address > a is at address + n, its names unchanged.  No table gains or
\* loses an entry.
C3_AllocationNeutralityAmended ==
    (DidOk("allocate") /\ ~last.ge) =>
        LET a == last.address
            n == last.amount
            Key(m) == [k \in DOMAIN m |-> IF k >= a THEN k + n ELSE k]
            LabelKey == [k \in DOMAIN Pre.labels |-> IF k > a THEN k + n ELSE k]
            Dest == [k \in DOMAIN Pre.pointers |->
                       IF Pre.pointers[k] > a THEN Pre.pointers[k] + n
                       ELSE Pre.pointers[k]]
        IN  /\ Rewritten(Pre.text, text, Key(Pre.text), Pre.text)
            /\ Rewritten(Pre.pointers, pointers, Key(Pre.pointers), Dest)
            /\ Rewritten(Pre.labels, labels, LabelKey, Pre.labels)

\* C3's case: allocate(a, n, FALSE) with n > 0 on a store holding a text
\* annotation below a and a label bucket at a.
C3_Witness ==
    /\ DidOk("allocate")
    /\ ~last.ge
    /\ last.amount > 0
    /\ \E k \in DOMAIN Pre.text : k < last.address
    /\ last.address \in DOMAIN Pre.labels

\* C4, as claimed: allocate(address, n, ge) increases a pointer source, a
\* text key or a label key by n if and only if the key is greater than
\* address, or equal to address while ge is true (one rule for the three
\* tables: with ge = FALSE a text annotation or pointer source at address
\* keeps its key).
C4_OneBoundaryRule ==
    DidOk("allocate") =>
        LET Key(k) == Moved(k, last.address, last.amount, last.ge)
        IN  /\ DOMAIN text = {Key(k) : k \in DOMAIN Pre.text}
            /\ DOMAIN pointers = {Key(k) : k \in DOMAIN Pre.pointers}
            /\ DOMAIN labels = {Key(k) : k \in DOMAIN Pre.labels}

\* C4, amended: allocate(address, n, ge) increases a pointer source or a
\* text key by n if and only if it is greater than or equal to address,
\* whatever ge; it increases a label key by n if and only if the key is
\* greater than address, or equal to address while ge is true.
C4_BoundaryRulesAmended ==
    DidOk("allocate") =>
        LET Key(k) == Moved(k, last.address, last.amount, TRUE)
            LabelKey(k) == Moved(k, last.address, last.amount, last.ge)
        IN  /\ DOMAIN text = {Key(k) : k \in DOMAIN Pre.text}
            /\ DOMAIN pointers = {Key(k) : k \in DOMAIN Pre.pointers}
            /\ DOMAIN labels = {LabelKey(k) : k \in DOMAIN Pre.labels}

\* C4's case: allocate(address, n, FALSE) with n > 0 on a store with a text
\* annotation and a label bucket at address.
C4_Witness ==
    /\ DidOk("allocate")
    /\ ~last.ge
    /\ last.amount > 0
    /\ last.address \in DOMAIN Pre.text
    /\ last.address \in DOMAIN Pre.labels

\* C5: after a successful allocate(a, n, FALSE) a label bucket that was at
\* a is still at a, no bucket lies inside the new window (a, a + n), and
\* every bucket that was at an address > a is at address + n with the same
\* names in the same order; with ge = TRUE the bucket at a is at a + n too.
\* Buckets below a stay where they were.
C5_LabelBoundary ==
    DidOk("allocate") =>
        LET a == last.address
            n == last.amount
        IN  /\ \A k \in DOMAIN Pre.labels :
                 LET k2 == IF k > a \/ (k = a /\ last.ge) THEN k + n ELSE k
                 IN  k2 \in DOMAIN labels /\ labels[k2] = Pre.labels[k]
            /\ \A k2 \in DOMAIN labels : ~(a < k2 /\ k2 < a + n)
            /\ (last.ge /\ n > 0) => a \notin DOMAIN labels

\* C5's case: allocate(a, n, FALSE), n > 0, with a two-name bucket at a and
\* another bucket beyond a.
C5_Witness ==
    /\ DidOk("allocate")
    /\ ~last.ge
    /\ last.amount > 0
    /\ last.address \in DOMAIN Pre.labels
    /\ Len(Pre.labels[last.address]) = 2
    /\ \E k \in DOMAIN Pre.labels : k > last.address

\* C6: after a successful allocate(a, n, FALSE) a pointer whose destination
\* was a keeps destination a, one whose destination was greater than a has
\* destination + n, one whose destination was less than a keeps it; with
\* ge = TRUE a destination equal to a becomes a + n.  (The pointer is found
\* at its source, which moves with the cell that holds it.)
C6_DestinationBoundary ==
    DidOk("allocate") =>
        LET a == last.address
            n == last.amount
        IN  \A k \in DOMAIN Pre.pointers :
               LET k2 == IF k >= a THEN k + n ELSE k
                   d == Pre.pointers[k]
               IN  /\ k2 \in DOMAIN pointers
                   /\ d < a => pointers[k2] = d
                   /\ d > a => pointers[k2] = d + n
                   /\ (d = a /\ ~last.ge) => pointers[k2] = a
                   /\ (d = a /\ last.ge) => pointers[k2] = a + n

\* C6's case: allocate(a, n, FALSE), n > 0, with a pointer whose
\* destination is a.
C6_Witness ==
    /\ DidOk("allocate")
    /\ ~last.ge
    /\ last.amount > 0
    /\ \E k \in DOMAIN Pre.pointers : Pre.pointers[k] = last.address

\* C7: allocate(address, n, ge) returns an error when address is not a
\* multiple of 4, when n is not a multiple of 4 or when address > size, and
\* deallocate(address, n, ge) when address >= size, address + n > size or
\* address or n is misaligned; a rejected call leaves data, pointers,
\* labels and text exactly as they were.
C7_RejectedChangesNothing ==
    (Did("allocate") \/ Did("deallocate")) =>
        LET a == last.address
            n == last.amount
            sz == Len(Pre.data)
            misaligned == a % 4 # 0 \/ n % 4 # 0
            rejected == IF last.op = "allocate"
                        THEN misaligned \/ a > sz
                        ELSE misaligned \/ a >= sz \/ a + n > sz
        IN  /\ rejected => last.err # "Ok"
            /\ last.err # "Ok" => (data = Pre.data /\ SameTables(Cur, Pre))

\* C7's case: an allocate rejected for its misaligned amount, on a store
\* that holds data and a label.
C7_Witness ==
    /\ Did("allocate")
    /\ last.err = "UnalignedValue"
    /\ last.amount % 4 # 0
    /\ last.address % 4 = 0
    /\ Len(Pre.data) > 0
    /\ DOMAIN Pre.labels # {}

\* C8: a successful deallocate(address, n, ge) removes the n bytes
\* data[address, address + n), drops every text annotation and label bucket
\* whose key lies in [address, address + n) and every pointer whose source
\* or destination lies there, decreases by n every remaining key and every
\* remaining pointer destination that was >= address + n, and leaves the
\* keys and destinations below address unchanged.
C8_DeallocateEffect ==
    (last.op = "deallocate" /\ last.err = "Ok") =>
        LET a == last.address
            n == last.amount
            Inside(x) == a <= x /\ x < a + n
            Down(x) == IF x >= a + n THEN x - n ELSE x
            Outside(m) == [k \in {x \in DOMAIN m : ~Inside(x)} |-> m[k]]
            Aimed == [k \in {x \in DOMAIN Pre.pointers :
                               ~Inside(x) /\ ~Inside(Pre.pointers[x])}
                        |-> Pre.pointers[k]]
            DownKey(m) == [k \in DOMAIN m |-> Down(k)]
        IN  /\ Len(data) = Len(Pre.data) - n
            /\ \A i \in 1..Len(data) :
                  data[i] = Pre.data[IF i <= a THEN i ELSE i + n]
            /\ Rewritten(Outside(Pre.text), text,
                         DownKey(Pre.text), Pre.text)
            /\ Rewritten(Outside(Pre.labels), labels,
                         DownKey(Pre.labels), Pre.labels)
            /\ Rewritten(Aimed, pointers, DownKey(Aimed),
                         [k \in DOMAIN Aimed |-> Down(Aimed[k])])

\* C8's case: deallocate(address, n, ge), n > 0, of a window a pointer from
\* outside aims into, with a label bucket at the window's end.
C8_Witness ==
    /\ DidOk("deallocate")
    /\ last.amount > 0
    /\ \E k \in DOMAIN Pre.pointers :
          /\ k < last.address
          /\ Pre.pointers[k] >= last.address
          /\ Pre.pointers[k] < last.address + last.amount
    /\ (last.address + last.amount) \in DOMAIN Pre.labels

\* C9, as claimed: after truncate(address), for every address,
\* data.len() = min(address, old data.len()) and no pointer, text
\* annotation or label bucket remains whose key is at or beyond address.
C9_TruncateDropsBeyond ==
    Did("truncate") =>
        LET a == last.address
            old == Len(Pre.data)
        IN  /\ Len(data) = IF a < old THEN a ELSE old
            /\ \A k \in DOMAIN pointers \cup DOMAIN text \cup DOMAIN labels : k < a

\* C10, as claimed: from a store whose data length is a multiple of 4,
\* after successful structural mutations (allocate, allocate_at_end,
\* BinArchiveWriter::allocate, deallocate, truncate) with arbitrary
\* arguments, data.len() is a multiple of 4.
C10_SizeMultipleOf4 ==
    (phase # "fresh" /\ last.err = "Ok" /\ Len(Orig.data) % 4 = 0) =>
        Len(data) % 4 = 0

(***************************************************************************)
(* Claims about the keys of the side tables.                               *)
(***************************************************************************)
\* C11: after any sequence of public calls from the empty store, every
\* key of pointers and of text is below data.len() and every key of labels
\* is at most data.len().
C11_KeyBounds ==
    phase = "ops" =>
        /\ \A k \in DOMAIN pointers \cup DOMAIN text : k < Len(data)
        /\ \A k \in DOMAIN labels : k <= Len(data)

\* A truncate that shortened the buffer and left a label bucket beyond the
\* new end.
C11_LabelBeyondEnd ==
    /\ phase = "ops"
    /\ last.op = "truncate"
    /\ \E k \in DOMAIN labels : k > Len(data)

\* C12: after any sequence of public calls from the empty store, every
\* key of pointers, labels and text is a multiple of 4.
C12_KeyAlignment ==
    phase = "ops" =>
        \A k \in DOMAIN pointers \cup DOMAIN labels \cup DOMAIN text : k % 4 = 0

\* A write_pointer that succeeded and left a key that is no multiple of 4.
C12_UnalignedKeyWritten ==
    /\ phase = "ops"
    /\ last.op = "write_pointer"
    /\ last.err = "Ok"
    /\ \E k \in DOMAIN pointers : k % 4 # 0

(***************************************************************************)
(* Claims about the typed accessors.  One call was made on the store Pre:  *)
(* last.address is its address, last.amount its width.                     *)
(***************************************************************************)
Scalars4 == {"read_u32", "read_i32", "read_f32", "write_u32", "write_i32", "write_f32"}

Scalars2 == {"read_u16", "read_i16", "write_u16", "write_i16"}

Scalars1 == {"read_u8", "read_i8", "write_u8", "write_i8"}

TableWrites == {"write_string", "write_pointer",
                "delete_string", "delete_pointer", "delete_labels"}

AccessOps ==
    Scalars4 \cup Scalars2 \cup Scalars1 \cup TableWrites
    \cup {"read_bytes", "write_bytes", "read_string", "read_pointer", "read_labels"}

InBounds ==
    last.address < Len(Pre.data) /\ last.address + last.amount <= Len(Pre.data)

\* C13: a 4-byte scalar access at an in-bounds address that is no multiple
\* of 4, and a 2-byte one at an in-bounds address that is no multiple of 2,
\* fails with UnalignedValue and leaves data as it was.
C13_ScalarAlignment ==
    (/\ phase = "mutated"
     /\ last.op \in Scalars4 \cup Scalars2
     /\ InBounds
     /\ last.address % last.amount # 0)
    => (last.err = "UnalignedValue" /\ data = Pre.data)

\* A write_u32 at an in-bounds address that is no multiple of 4, which
\* succeeded and changed the bytes.
C13_UnalignedWriteStored ==
    /\ phase = "mutated"
    /\ last.op = "write_u32"
    /\ InBounds
    /\ last.address % 4 # 0
    /\ last.err = "Ok"
    /\ data # Pre.data

\* The table m2 is m1 but for its entry at key k.
SameBut(m1, m2, k) ==
    /\ DOMAIN m1 \ {k} = DOMAIN m2 \ {k}
    /\ \A x \in DOMAIN m1 \ {k} : m1[x] = m2[x]

\* C14: a typed read, write or delete of width w at address a with
\* a >= data.len() or a + w > data.len() returns OutOfBoundsAddress and
\* changes nothing; otherwise it succeeds, a read changes nothing, a write
\* of bytes changes only the bytes [a, a + w) of data, and a write or
\* delete in a side table changes only the entry of that table at a.
C14_BoundsValidation ==
    (phase = "mutated" /\ last.op \in AccessOps) =>
        IF ~InBounds
        THEN last.err = "OutOfBoundsAddress" /\ Cur = Pre
        ELSE /\ last.err = "Ok"
             /\ Len(data) = Len(Pre.data)
             /\ \A i \in 1..Len(data) :
                   (i <= last.address \/ i > last.address + last.amount)
                   => data[i] = Pre.data[i]
             /\ last.op \in TableWrites => data = Pre.data
             /\ SameBut(Pre.text, text, last.address)
             /\ SameBut(Pre.pointers, pointers, last.address)
             /\ SameBut(Pre.labels, labels, last.address)
             /\ last.op \notin {"write_string", "delete_string"} => text = Pre.text
             /\ last.op \notin {"write_pointer", "delete_pointer"}
                   => pointers = Pre.pointers
             /\ last.op # "delete_labels" => labels = Pre.labels
             /\ cstrings = Pre.cstrings /\ endian = Pre.endian

\* A write_u32 into the last four bytes of the buffer, which changed them.
C14_Witness ==
    /\ phase = "mutated"
    /\ last.op = "write_u32"
    /\ last.err = "Ok"
    /\ last.address + 4 = Len(Pre.data)
    /\ data # Pre.data

(***************************************************************************)
(* Claims about the buffer serialize returns, read back from out as        *)
(* from_bytes reads it.                                                    *)
(***************************************************************************)
Serialized == phase = "serialized" /\ last.err = "Ok"

OutPointerCount == U32At(out, 8, endian)

OutLabelCount == U32At(out, 12, endian)

\* The offsets in out of the label table and of the text section.
OutLabelTable == 32 + U32At(out, 4, endian) + 4 * OutPointerCount

OutTextStart == OutLabelTable + 8 * OutLabelCount

\* Entry i (from 1) of the label table: its address, its text offset and
\* the name at that offset.
OutLabel(i) ==
    LET address == U32At(out, OutLabelTable + 8 * (i - 1), endian)
        offset == U32At(out, OutLabelTable + 8 * (i - 1) + 4, endian)
    IN  [address |-> address, offset |-> offset,
         name |-> read_shift_jis_string(out, OutTextStart + offset).string]

\* The names of the entries with the address k, in table order.
RECURSIVE OutBucket(_, _)
OutBucket(k, i) ==
    IF i > OutLabelCount THEN <<>>
    ELSE (IF OutLabel(i).address = k THEN <<OutLabel(i).name>> ELSE <<>>)
         \o OutBucket(k, i + 1)

\* C15: the label table of a little-endian store is in non-decreasing
\* order of address with the names of a bucket in bucket order; the label
\* table of a big-endian store is in non-decreasing order of name.
C15_LabelTableOrder ==
    Serialized =>
        IF endian = "Little"
        THEN /\ \A i, j \in 1..OutLabelCount :
                   i < j => OutLabel(i).address <= OutLabel(j).address
             /\ \A k \in DOMAIN labels : OutBucket(k, 1) = labels[k]
        ELSE \A i, j \in 1..OutLabelCount :
                   i < j => ~StrLess(OutLabel(j).name, OutLabel(i).name)

\* A big-endian store with a bucket of two names, serialized with a name
\* of the table above the one that follows it.
C15_BigBucketOutOfOrder ==
    /\ Serialized
    /\ endian = "Big"
    /\ \E k \in DOMAIN labels : Len(labels[k]) = 2
    /\ \E i \in 1..(OutLabelCount - 1) :
          StrLess(OutLabel(i + 1).name, OutLabel(i).name)

\* C16: the buffer serialize returned is the one it returns in every
\* order in which the hash maps can yield the entries of the store.
C16_SerializeDeterministic ==
    Serialized => \A o \in LabelOrders(Cur) : serialize(Cur, o).bytes = out

\* A big-endian store with two buckets of the same names, serialized, for
\* which another iteration order gives another buffer.
C16_EqualBucketsDiffer ==
    /\ Serialized
    /\ endian = "Big"
    /\ \E j, k \in DOMAIN labels : j # k /\ labels[j] = labels[k]
    /\ \E o \in LabelOrders(Cur) : serialize(Cur, o).bytes # out

\* The strings of the text section of out, each with its offset.
RECURSIVE OutText(_)
OutText(pos) ==
    LET r == read_shift_jis_string(out, OutTextStart + pos)
    IN  IF r.err # "Ok" THEN <<>>
        ELSE <<[offset |-> pos, string |-> r.string]>>
             \o OutText(pos + Len(r.string) + 1)

\* The strings in the order serialize meets them: the names of the label
\* table, then the text annotations by address.
Met ==
    [i \in 1..OutLabelCount |-> OutLabel(i).name]
    \o [i \in 1..Entries(text) |-> text[Ascending(DOMAIN text)[i]]]

\* s without the repetitions of its elements.
RECURSIVE Distinct(_)
Distinct(s) ==
    IF s = <<>> THEN <<>>
    ELSE LET front == Distinct(SubSeq(s, 1, Len(s) - 1))
             x == s[Len(s)]
         IN  IF \E i \in 1..Len(front) : front[i] = x THEN front ELSE Append(front, x)

BucketAt(m, k) == IF k \in DOMAIN m THEN m[k] ELSE <<>>

\* write_label(a, x) appended x to the bucket at a and changed no other.
LabelAppended ==
    DidOk("write_label") =>
        /\ last.address \in DOMAIN labels
        /\ labels[last.address]
              = Append(BucketAt(Pre.labels, last.address), last.arg[1])
        /\ SameBut(Pre.labels, labels, last.address)

\* delete_label(a, i) on the bucket b removed the name i and kept the
\* order of the others, or failed with LabelIndexOutOfBounds.
LabelDeleted ==
    LET b == Pre.labels[last.address]
        index == last.amount
    IN  IF index < Len(b)
        THEN /\ last.err = "Ok"
             /\ labels[last.address] = SubSeq(b, 1, index) \o SubSeq(b, index + 2, Len(b))
             /\ SameBut(Pre.labels, labels, last.address)
        ELSE last.err = "LabelIndexOutOfBounds" /\ labels = Pre.labels

\* allocate, deallocate and the scalar writes keep the names of every
\* bucket they keep, in their order.
BucketsKeptInOrder ==
    (/\ phase = "mutated"
     /\ last.op \in {"allocate", "deallocate", "write_u8", "write_i8", "write_u16",
                     "write_i16", "write_u32", "write_i32", "write_f32", "write_bytes"})
    => /\ \A k \in DOMAIN labels : \E j \in DOMAIN Pre.labels : labels[k] = Pre.labels[j]
       /\ Entries(labels) <= Entries(Pre.labels)

\* C18: write_label(a, x) appends x to bucket a and changes no other
\* bucket; delete_label(a, i) removes the name i of the bucket at a when i
\* is below its length and fails with LabelIndexOutOfBounds otherwise;
\* allocate, deallocate and scalar writes do not reorder a bucket.
C18_LabelStability ==
    /\ LabelAppended
    /\ (Did("delete_label") /\ last.address \in DOMAIN Pre.labels) => LabelDeleted
    /\ BucketsKeptInOrder

\* C18, amended: as C18 for delete_label on a bucket whose cell lies in
\* the buffer (a + 4 <= data.len()); on a bucket at or within 4 bytes of
\* the end delete_label fails with OutOfBoundsAddress and changes nothing.
C18_LabelStabilityAmended ==
    /\ LabelAppended
    /\ (Did("delete_label") /\ last.address \in DOMAIN Pre.labels) =>
          IF last.address + 4 <= Len(Pre.data)
          THEN LabelDeleted
          ELSE last.err = "OutOfBoundsAddress" /\ Cur = Pre
    /\ BucketsKeptInOrder

\* delete_label(a, 0) on a bucket of two names inside the buffer.
C18_Witness ==
    /\ DidOk("delete_label")
    /\ last.address \in DOMAIN Pre.labels
    /\ Len(Pre.labels[last.address]) = 2
    /\ last.amount = 0
    /\ Len(labels[last.address]) = 1

(***************************************************************************)
(* Claims about assert_equal_regions(other, s, o, length): last.address    *)
(* is s, last.arg[1] is o, last.amount is length.                          *)
(***************************************************************************)
Steps == {i \in 0..(last.amount - 1) : i % 4 = 0}

\* Every cell of the walk lies in its buffer.
RegionsInBounds ==
    \A i \in Steps :
        /\ last.address + i + 4 <= Len(data)
        /\ last.arg[1] + i + 4 <= Len(other.data)

\* The cells of step i agree in the sense of the claim.
CellsAgree(i) ==
    LET sa == last.address + i
        oa == last.arg[1] + i
    IN  /\ Lookup(text, sa) = Lookup(other.text, oa)
        /\ (sa \in DOMAIN pointers) = (oa \in DOMAIN other.pointers)
        /\ Lookup(labels, sa) = Lookup(other.labels, oa)
        /\ (sa \notin DOMAIN pointers /\ sa \notin DOMAIN text)
           => SubSeq(data, sa + 1, sa + 4) = SubSeq(other.data, oa + 1, oa + 4)

\* C19: over in-bounds regions assert_equal_regions returns Ok if and only
\* if the cells of every step have equal text, both have or both lack a
\* pointer, have equal label buckets and, carrying neither pointer nor
\* text, equal raw bytes; otherwise it returns ComparisonFailure with the
\* addresses of the first step whose cells do not.
C19_RegionEquality ==
    (phase = "compared" /\ RegionsInBounds) =>
        IF \A i \in Steps : CellsAgree(i)
        THEN last.err = "Ok"
        ELSE LET m == CHOOSE i \in Steps :
                        ~CellsAgree(i) /\ \A j \in Steps : j < i => CellsAgree(j)
             IN  /\ last.err = "ComparisonFailure"
                 /\ last.ret = <<last.address + m, last.arg[1] + m>>

\* Stores of different endian whose cells agree at every step, raw bytes
\* included, and the comparison failed.
C19_EqualBytesRejected ==
    /\ phase = "compared"
    /\ last.amount > 0
    /\ RegionsInBounds
    /\ endian # other.endian
    /\ \A i \in Steps : CellsAgree(i)
    /\ last.err = "ComparisonFailure"

(***************************************************************************)
(* Claims about the buffers from_bytes rejects.                            *)
(***************************************************************************)
Parsed == phase \in {"parsed", "rejected"} /\ last.op = "from_bytes"

\* 0x20 + data_size + 4 * pointer_count + 8 * label_count of the header.
HeaderNeeds ==
    32 + U32At(file, 4, endian) + 4 * U32At(file, 8, endian)
       + 8 * U32At(file, 12, endian)

TooShort == Len(file) < 32 \/ Len(file) < HeaderNeeds

\* Some entry of the pointer table names a cell outside the data section.
BadPointerSource ==
    \E i \in 0..(U32At(file, 8, endian) - 1) :
        U32At(file, 32 + U32At(file, 4, endian) + 4 * i, endian) + 4
            > U32At(file, 4, endian)

\* C20: from_bytes returns ArchiveTooSmall for a buffer shorter than 0x20
\* bytes or than its header requires, SizeMismatch for a buffer whose size
\* field is not its length, and an error for a buffer with a pointer-table
\* entry outside the data section.
C20_HeaderRejected ==
    Parsed =>
        IF TooShort THEN last.err = "ArchiveTooSmall"
        ELSE /\ U32At(file, 0, endian) # Len(file) => last.err = "SizeMismatch"
             /\ BadPointerSource => last.err # "Ok"

\* A buffer long enough for its header whose size field is not its
\* length, parsed into a store.
C20_WrongSizeParsed ==
    /\ Parsed
    /\ ~TooShort
    /\ U32At(file, 0, endian) # Len(file)
    /\ last.err = "Ok"

(***************************************************************************)
(* Claims about the text archive.                                          *)
(***************************************************************************)
TextKeysOf(entries) == [i \in 1..Len(entries) |-> entries[i].key]

\* A message without a backslash and without a line feed.
Plain(s) == \A i \in 1..Len(s) : s[i] # Backslash /\ s[i] # LineFeed

\* C21: after any sequence of set_message (and delete_message) calls the
\* entries iterate in the order in which their keys were first inserted;
\* set_message on an existing key replaces its message, keeps one entry
\* for the key and does not move it.
C21_InsertionOrder ==
    phase = "text" =>
        /\ TextKeysOf(textArchive.entries) = inserted
        /\ last.op = "set_message" =>
              /\ Cardinality(Position(textArchive.entries, last.arg[1])) = 1
              /\ Plain(last.arg[2]) =>
                    LinkedGet(textArchive.entries, last.arg[1]) = <<last.arg[2]>>

\* C21 witness: "A" was inserted before "B" and has just been assigned
\* again; it is still the first key.
C21_Witness ==
    /\ phase = "text"
    /\ last.op = "set_message"
    /\ last.arg = <<StrA, StrA>>
    /\ inserted = <<StrA, StrB>>
    /\ TextKeysOf(textArchive.entries) = <<StrA, StrB>>
    /\ textArchive.entries[1].value = StrA
    /\ textArchive.entries[2].value = <<>>

\* The places of s where the two-character escape starts, and where a line
\* feed stands.
Pairs(s) == {i \in 1..(Len(s) - 1) : s[i] = Backslash /\ s[i + 1] = LetterN}

Feeds(s) == {i \in 1..Len(s) : s[i] = LineFeed}

\* The message stored by the last call, a set_message.
Stored == LinkedGet(textArchive.entries, last.arg[1])

\* The stored entry holds a line feed wherever s had the escape, and the
\* other characters of s.
Unescaped(s, v) ==
    /\ Len(v) = Len(s) - Cardinality(Pairs(s))
    /\ \A p \in Pairs(s) :
          v[p - Cardinality({q \in Pairs(s) : q < p})] = LineFeed
    /\ Cardinality(Feeds(v)) = Cardinality(Pairs(s)) + Cardinality(Feeds(s))

\* C22 as stated: for every key k and every string s whose only
\* multi-character escapes are backslash-n, get_message(k) after
\* set_message(k, s) returns Some(s), and the stored entry holds a line
\* feed wherever s had backslash-n.
C22_NewlineEscape ==
    (phase = "text" /\ last.op = "set_message") =>
        /\ get_message(textArchive, last.arg[1]) = <<last.arg[2]>>
        /\ Stored # <<>>
        /\ Unescaped(last.arg[2], Stored[1])

\* C22 amended: the same for every s that holds no line feed of its own; a
\* line feed of s comes back as the escape.
C22_NewlineEscapeAmended ==
    (phase = "text" /\ last.op = "set_message") =>
        /\ Feeds(last.arg[2]) = {} =>
              get_message(textArchive, last.arg[1]) = <<last.arg[2]>>
        /\ Feeds(last.arg[2]) # {} =>
              get_message(textArchive, last.arg[1]) # <<last.arg[2]>>
        /\ Stored # <<>>
        /\ Unescaped(last.arg[2], Stored[1])

\* C22 witness: set_message(k, "A\nB") with the escape stored "A", line
\* feed, "B", and get_message(k) returns the message as it was passed.
C22_Witness ==
    /\ phase = "text"
    /\ last.op = "set_message"
    /\ last.arg[2] = <<65, Backslash, LetterN, 66>>
    /\ Stored = << <<65, LineFeed, 66>> >>
    /\ get_message(textArchive, last.arg[1]) = <<last.arg[2]>>

\* The bytes that serialize writes for the title and for a message, and the
\* offset at which message i starts.
Padded(n) == n + ((4 - (n % 4)) % 4)

TitleBytes(ta) ==
    IF ta.format = "Unicode" THEN Padded(Len(ta.title) + 1) ELSE 0

MessageBytes(ta, v) ==
    IF ta.format = "ShiftJIS" THEN Padded(Len(v) + 1) ELSE Padded(2 * Len(v) + 2)

RECURSIVE StartOf(_, _)
StartOf(ta, i) ==
    IF i = 1 THEN TitleBytes(ta)
    ELSE StartOf(ta, i - 1) + MessageBytes(ta, ta.entries[i - 1].value)

\* C23: serialize of a text archive of either format, with any number of
\* entries, succeeds and places exactly one label, the key, at the
\* 4-aligned offset at which each message starts; from_bytes on the result
\* yields the same title (UTF-16 format) and the same (key, message) pairs
\* in the same order.
C23_TextRoundTrip ==
    /\ phase = "written" =>
          /\ last.err = "Ok"
          /\ DOMAIN labels = {StartOf(hist[1], i) : i \in 1..Len(hist[1].entries)}
          /\ \A i \in 1..Len(hist[1].entries) :
                /\ StartOf(hist[1], i) % 4 = 0
                /\ labels[StartOf(hist[1], i)] = <<hist[1].entries[i].key>>
    /\ phase = "reread" =>
          /\ last.err = "Ok"
          /\ hist[1].format = "Unicode" => textArchive.title = hist[1].title
          /\ textArchive.entries = hist[1].entries

\* C23 failing case: the legacy archive without entries is not serialized;
\* write_bytes(0, []) on the empty archive is out of bounds.
C23_EmptyLegacyRejected ==
    /\ phase = "written"
    /\ hist[1].format = "ShiftJIS"
    /\ hist[1].entries = <<>>
    /\ last.op = "serialize"
    /\ last.err = "OutOfBoundsAddress"

(***************************************************************************)
(* Claims about the animation-set file.                                    *)
(***************************************************************************)
\* The 4-byte words of a serialized set, and the offset at which set k of
\* the file a begins: after the header, the clip table and the sets
\* before it.
SetWords(set) == 1 + Cardinality(main_flags_of(set)) + strings_to_write(set)

RECURSIVE SetStart(_, _)
SetStart(a, k) ==
    IF k = 1 THEN 12 + 4 * Len(a.anim_clip_table)
    ELSE SetStart(a, k - 1) + 4 * SetWords(a.sets[k - 1])

\* The first label of the store at the address a, or None.
FirstLabel(a) ==
    IF a \in DOMAIN labels /\ labels[a] # <<>> THEN <<labels[a][1]>> ELSE <<>>

Reread == phase = "reread" /\ last.op = "from_archive" /\ last.err = "Ok"

\* C24: every set that from_archive parses has 1 + 8 * 32 = 257 slots and
\* holds in slot 0 the first label attached to the offset at which the set
\* begins, so that a set serialized with the label L at its start is read
\* back with slot 0 = Some(L).
C24_SetLabel ==
    Reread =>
        /\ Len(aset.sets) = Len(hist[1].sets)
        /\ \A k \in 1..Len(aset.sets) :
              /\ Len(aset.sets[k]) = 1 + Sections * SectionBits
              /\ aset.sets[k][1] = FirstLabel(SetStart(hist[1], k))
              /\ aset.sets[k][1] = hist[1].sets[k][1]

\* C24 failing case: the set was serialized with the label "A", the parsed
\* store has the label "A" at the offset of the set, and slot 0 of the
\* parsed set is None, the first label at the address 0.
C24_LabelReadAtZero ==
    /\ Reread
    /\ Len(aset.sets) = 1
    /\ hist[1].sets[1][1] = <<StrA>>
    /\ FirstLabel(SetStart(hist[1], 1)) = <<StrA>>
    /\ FirstLabel(0) = <<>>
    /\ aset.sets[1][1] = <<>>

(***************************************************************************)
(* Claims about the asset table.                                           *)
(***************************************************************************)
\* The spec of the last append or from_stream, and the address at which it
\* was appended.
Appended == last.arg[1]

\* Bit i of the bitmap that starts at the address a.
BitmapBit(a, i) == (data[a + 1 + (i \div 8)] \div (2 ^ (i % 8))) % 2 = 1

\* An extension field of the spec is present.
HasExtension(spec) ==
    \/ spec.strings[FirstExtension + 1] # <<>>
    \/ spec.strings[LastString + 1] # <<>>
    \/ spec.uses # {}

\* The fields of the spec that take a cell after the name.
FieldCount(spec) ==
    Cardinality({i \in StringFields : spec.strings[i + 1] # <<>>})
    + Cardinality(spec.uses)

\* C25: the bitmap that append writes is 8 bytes with bit 0 of byte 0 set
\* if and only if an extension field (clothing_sound, voice or a use_*
\* flag) is present, and 4 bytes with bit 0 clear otherwise; bit i, i =
\* 1..33, is set if and only if the i-th optional string is present; and
\* from_stream on the appended bytes returns the fields as they were
\* appended, the colors in their in-memory byte order.
C25_AssetBitmap ==
    /\ (phase = "appended" /\ last.op = "append") =>
          LET a == last.address
              len == IF HasExtension(Appended) THEN 8 ELSE 4
          IN  /\ last.err = "Ok"
              /\ BitmapBit(a, 0) <=> HasExtension(Appended)
              /\ size(Cur) = a + len + 4 + 4 * FieldCount(Appended)
              /\ Lookup(text, a + len) = Appended.strings[1]
              /\ \A i \in 1..(8 * len - 1) :
                    BitmapBit(a, i) <=>
                        \/ i \in StringFields /\ Appended.strings[i + 1] # <<>>
                        \/ i \in Appended.uses
              /\ \A i \in (8 * len)..LastString : Appended.strings[i + 1] = <<>>
    /\ (phase = "streamed" /\ last.op = "from_stream") =>
          /\ last.err = "Ok"
          /\ last.ret = <<Appended>>
          /\ last.amount = size(Cur)

\* C25 witness: a spec with hair_texture, bitflags and unk13 was appended
\* with an 8-byte bitmap whose bit 0 is set, and from_stream returned it.
C25_Witness ==
    /\ phase = "streamed"
    /\ last.op = "from_stream"
    /\ Appended = MakeSpec(<<StrA>>, {8}, {44, 51})
    /\ BitmapBit(last.address, 0)
    /\ BitmapBit(last.address, 44)
    /\ Bytes(Cur, last.address + 16, 4) = swap_color(AssetColor)
    /\ last.ret = <<Appended>>

\* from_archive has returned Ok with the header word and the specs: those
\* of the table that was serialized when it read the archive that
\* serialize built or its parsed bytes, and those followed by what the
\* cells after the end marker parse to otherwise.
ReturnedTable ==
    /\ phase = "returned"
    /\ last.op = "from_archive"
    /\ last.err = "Ok"
    /\ reader.error
    /\ last.ret[1].flags = assets.flags
    /\ Len(last.ret[1].specs) >= Len(assets.specs)
    /\ SubSeq(last.ret[1].specs, 1, Len(assets.specs)) = assets.specs
    /\ reader.source \in {"written", "parsed"} => last.ret[1].specs = assets.specs

\* C26: on an archive of at least 4 bytes from_archive terminates and
\* returns Ok with the header flags word and exactly the specs parsed
\* before the first from_stream failure; the failure is not returned, and
\* the 4 zero bytes that serialize appends end the table without
\* producing a spec.
C26_TolerantRead == (phase = "reading") ~> ReturnedTable

\* C26 witness: a table of two specs was serialized and parsed, and
\* from_archive returned the two specs with its reader stopped at the 4
\* zero bytes at the end of the data.
C26_Witness ==
    /\ ReturnedTable
    /\ reader.source = "parsed"
    /\ Len(assets.specs) = 2
    /\ reader.position = size(Cur) - 4
    /\ Bytes(Cur, reader.position, 4) = <<0, 0, 0, 0>>

(***************************************************************************)
(* Claims about the legacy arc bundle.                                     *)
(***************************************************************************)
\* The address and the unpadded size of file i in the serialized bundle.
FileAddress(i) == U32At(out, BASE_HEADER_SIZE + METADATA_SIZE * (i - 1) + 8, "Big")

FileSize(i) == U32At(out, BASE_HEADER_SIZE + METADATA_SIZE * (i - 1) + 12, "Big")

\* In the serialized bundle every file starts at a multiple of 32 inside
\* the buffer, holds its contents, and no two files share a byte.
ArcLayout ==
    /\ \A i \in 1..Len(arc) :
          /\ FileAddress(i) % PADDING_BOUNDARY = 0
          /\ FileSize(i) = Len(arc[i].value)
          /\ FileAddress(i) + FileSize(i) <= Len(out)
          /\ SubSeq(out, FileAddress(i) + 1, FileAddress(i) + FileSize(i)) = arc[i].value
    /\ \A i, j \in 1..Len(arc) :
          i < j => FileAddress(i) + FileSize(i) <= FileAddress(j)

\* A name that SHIFT_JIS.decode gives back from its SHIFT_JIS.encode.
Faithful(name) == \A i \in 1..Len(name) : DecodeByte(EncodeChar(name[i])) = name[i]

\* C27: for every insertion-ordered map m of distinct, NUL-free,
\* Shift-JIS-encodable names to byte blobs, parse(serialize(m)) returns the
\* same names with the same contents in the same order, and in the
\* serialized buffer every file starts at a multiple of 32 and no two files
\* overlap.
C27_ArcRoundTrip ==
    /\ phase \in {"packed", "unpacked"} => last.err = "Ok" /\ ArcLayout
    /\ phase = "unpacked" => last.ret = <<arc>>

\* The yen sign is encodable and is the only name; serialize packed it as
\* the byte 0x5C, the layout is as claimed, and parse returned the file
\* under the name of a backslash.
C27_YenBecomesBackslash ==
    /\ phase = "unpacked"
    /\ last.err = "Ok"
    /\ ArcLayout
    /\ Len(arc) = 1
    /\ arc[1].key = <<Yen>>
    /\ to_shift_jis(arc[1].key).ok
    /\ last.ret = <<<<[key |-> <<Backslash>>, value |-> arc[1].value]>>>>

(***************************************************************************)
(* Claims about staged C strings.                                          *)
(***************************************************************************)
\* The sources of the pointer table of the serialized buffer, in order.
EmittedSources ==
    LET data_size == U32At(out, 4, endian)
        count == U32At(out, 8, endian)
    IN  [i \in 1..count |-> U32At(out, 32 + data_size + 4 * (i - 1), endian)]

\* serialize ran after write_c_string(a, s) and one mutation: the address
\* a, the mutation, and the cell that held a before the mutation.
StagedAt == hist[1].address

Mutation == hist[2]

MutatedAndEmitted ==
    /\ phase = "emitted"
    /\ Len(hist) = 2
    /\ Mutation.err = "Ok"

\* The mutation removed the cell a.
RemovedStaged ==
    \/ /\ Mutation.op = "deallocate"
       /\ Mutation.address <= StagedAt
       /\ StagedAt < Mutation.address + Mutation.amount
    \/ /\ Mutation.op = "truncate"
       /\ Mutation.address <= StagedAt

\* The pointer to the only C string of the store: it begins where the data
\* section ends.
CStringAddress == encode_u32(Len(data), endian)

\* C28: after write_c_string(a, s) and a successful allocate(x, n, ge) with
\* x <= a, serialize writes the C-string pointer into the cell now at
\* a + n and names that cell in the pointer table; after a deallocate or a
\* truncate that removes the cell a, no pointer entry for a is emitted.
C28_CStringsFollow ==
    MutatedAndEmitted /\ pointers = EmptyMap =>
        /\ last.err = "Ok"
        /\ (Mutation.op = "allocate" /\ Mutation.address <= StagedAt) =>
              /\ EmittedSources = <<StagedAt + Mutation.amount>>
              /\ SubSeq(out, 32 + StagedAt + Mutation.amount + 1,
                        32 + StagedAt + Mutation.amount + 4) = CStringAddress
        /\ RemovedStaged => EmittedSources = <<>>

\* write_c_string(0, s), then allocate(0, 4, ge): serialize names the
\* cell 0 in the pointer table and writes the pointer into the inserted
\* cell, and the cell now at 4, which was the cell 0, keeps its bytes.
C28_SourceStaysBehind ==
    /\ MutatedAndEmitted
    /\ pointers = EmptyMap
    /\ Mutation.op = "allocate"
    /\ Mutation.address = 0
    /\ Mutation.amount = 4
    /\ StagedAt = 0
    /\ last.err = "Ok"
    /\ EmittedSources = <<0>>
    /\ SubSeq(out, 33, 36) = CStringAddress
    /\ SubSeq(out, 37, 40) = <<1, 2, 3, 4>>

(***************************************************************************)
(* Claims about the text pointers of a serialized store.                   *)
(***************************************************************************)
\* Where the text section of the serialized buffer begins: after the
\* header, the data with the padded C-string bytes, the pointer table and
\* the label table.
TextSectionStart ==
    32 + U32At(out, 4, endian) + 4 * U32At(out, 8, endian)
    + 8 * U32At(out, 12, endian)

\* The offset that the cell of the text annotation at a points to.
TextTarget(a) == U32At(out, 32 + a, endian) + 32

\* The NUL-terminated encoding of the string begins at the offset p of the
\* text section.
EntryAt(p, string) ==
    /\ p >= TextSectionStart
    /\ p = TextSectionStart \/ out[p] = 0
    /\ p + Len(string) + 1 <= Len(out)
    /\ SubSeq(out, p + 1, p + Len(string) + 1) = to_shift_jis(string).bytes \o <<0>>

\* C29: for every store, also one that holds write_c_string entries, and
\* every text annotation (a, s), the u32 that serialize writes at the
\* offset 0x20 + a, plus 0x20, is the offset of the first byte of the
\* NUL-terminated Shift-JIS encoding of s in the text section.
C29_TextPointersResolve ==
    (phase = "serialized" /\ last.err = "Ok") =>
        \A a \in DOMAIN text : EntryAt(TextTarget(a), text[a])

\* A store of one cell that holds the text "A" and a staged C string at
\* the same time was serialized, and the text pointer of the cell lands 8
\* bytes before the text section: text_start counts neither the padded
\* C-string bytes nor the C-string entry of the pointer table.
C29_PointerBeforeText ==
    /\ phase = "serialized"
    /\ last.err = "Ok"
    /\ cstrings # EmptyMap
    /\ Len(data) = 4
    /\ 0 \in DOMAIN text
    /\ text[0] = StrA
    /\ labels = EmptyMap
    /\ TextTarget(0) = TextSectionStart - 8
    /\ EntryAt(TextSectionStart, StrA)

(***************************************************************************)
(* Claims about the round trip of a store.                                 *)
(***************************************************************************)
\* The bytes of the cells that hold a pointer or a text annotation.
AnnotatedBytes ==
    {i \in 1..Len(data) :
        \E k \in DOMAIN pointers \cup DOMAIN text : k < i /\ i <= k + 4}

\* The parsed store is the serialized one but for the bytes of its
\* pointer and text cells.
SameStore ==
    /\ other.pointers = pointers
    /\ other.text = text
    /\ other.labels = labels
    /\ Len(other.data) = Len(data)
    /\ \A i \in (1..Len(data)) \ AnnotatedBytes : other.data[i] = data[i]

\* C30: for every store without C-string entries whose keys are 4-aligned
\* and below data.len() (labels at most data.len()), whose pointer and
\* text keys are disjoint, whose pointer destinations are at most
\* data.len() and whose label buckets are not empty,
\* from_bytes(serialize(S), endian) succeeds and yields the same pointers,
\* text and label buckets in the same order, the same data length and the
\* same data bytes outside pointer and text cells.
C30_StoreRoundTrip ==
    /\ phase = "flat" => last.err = "Ok"
    /\ phase = "back" => last.err = "Ok" /\ SameStore

\* A store of 6 bytes with a pointer on the address 4 and nothing else was
\* serialized, and from_bytes rejected the bytes: the cell at 4 is 4-aligned
\* and below the length, but only two of its bytes exist.
C30_HalfCellRejected ==
    /\ phase = "back"
    /\ Len(data) = 6
    /\ pointers = [k \in {4} |-> 0]
    /\ text = EmptyMap
    /\ labels = EmptyMap
    /\ last.op = "from_bytes"
    /\ last.err = "OutOfBoundsAddress"

====
